---- MODULE Spec2Model ----
(***************************************************************************)
(* A model of the annotation/rendering pipeline of app/transliteration.py  *)
(* (transliterate_chapter and its helpers), of classify_uncommon, of the   *)
(* module caches under concurrent callers, and of the offline run of       *)
(* build_sound_annotations.py.                                             *)
(*                                                                         *)
(* Text is modelled character by character: a Python str is a sequence of  *)
(* one-character strings, so that the regular expressions and str.replace  *)
(* of the source act on the model exactly as they act on the text.         *)
(* The character U+00B7 (middle dot) is written "U+00B7".                  *)
(***************************************************************************)
EXTENDS Integers, Sequences, FiniteSets, TLC

VARIABLES
    pc,                      \* position of the call: "start", "loop", "done", "raised", or a classify_* position
    call_mode,               \* "direct" (a call of transliterate_chapter) or "route" (home/navigate calling it)
    book, chapter,           \* arguments
    strongs_dict_path,       \* argument: the user override store, id -> [translations, color]
    strongs_path,            \* argument: the lexicon, id -> [xlit, lemma, pronounce, description]
    kjv_path,                \* argument: the corpus, a sequence of verse records
    max_repeated_highlights, \* argument: the cap (a number, or a dict when a route passes sound_slice)
    active_units,            \* argument: sequence of literary units
    _global_strongs_counts,  \* module global cache (None until first use)
    _verses_by_book,         \* module global cache (None until first use)
    chapter_data,            \* local: derived per-call copy of the chapter's verses
    replacement_mapping,     \* local: id -> resolved romanization entry
    repeated_strongs,        \* local: the repeat set
    uncommon_lookup,         \* local: id -> classify_uncommon result
    vi, si,                  \* loop positions: verse index, marker index within the verse
    result,                  \* local: list of finished lines
    returned,                \* the returned string (None until the call returns)
    raised,                  \* the exception that left the call ("" when none)
    calls,                   \* trace of the marker iterations: what each one matched and emitted
    context,                 \* classify_uncommon: its argument
    classified,              \* classify_uncommon: its return value (None before the call)
    threads,                 \* concurrent callers of the cache getters: thread -> its position and locals
    sound_pc,                \* build_sound_annotations.py main(): "idle", "loaded", "indexed", "collected",
                             \* "grouped", "done" or "raised"
    bible_tokens,            \* main(): the verse entries loaded from --bible
    literary_units,          \* main(): units, book -> list of unit ranges
    lexicon_roots,           \* main(): lexicon, Strong's number -> root data
    hash_seed,               \* the run's string hash seed: it fixes the iteration order of every set
    bible_index,             \* main(): book -> chapter -> verse -> tokens (None before it is built)
    verse_stats,             \* build_sound_annotations: verse id -> VerseStats
    verse_to_units,          \* build_sound_annotations: verse id -> list of UnitStats
    annotations,             \* main(): the output (None before it is built)
    sound_raised             \* the exception that left main() ("" when none)

sound_vars == <<sound_pc, bible_tokens, literary_units, lexicon_roots, hash_seed, bible_index,
                verse_stats, verse_to_units, annotations, sound_raised>>
vars == <<pc, call_mode, book, chapter, strongs_dict_path, strongs_path, kjv_path,
          max_repeated_highlights, active_units, _global_strongs_counts, _verses_by_book,
          chapter_data, replacement_mapping, repeated_strongs, uncommon_lookup, vi, si,
          result, returned, raised, calls, context, classified, threads, sound_vars>>

\* no run of build_sound_annotations.py, no concurrent callers
SoundIdle ==
    /\ sound_pc = "idle"
    /\ bible_tokens = <<>>
    /\ literary_units = <<>>
    /\ lexicon_roots = <<>>
    /\ hash_seed = 0
    /\ bible_index = {}
    /\ verse_stats = <<>>
    /\ verse_to_units = <<>>
    /\ annotations = {}
    /\ sound_raised = ""
NoThreads == threads = <<>>

None == "None"

----------------------------------------------------------------------------
(* Characters and Python's str primitives.                                 *)

LowerSeq == <<"a","b","c","d","e","f","g","h","i","j","k","l","m","n","o","p","q","r","s","t","u","v","w","x","y","z">>
UpperSeq == <<"A","B","C","D","E","F","G","H","I","J","K","L","M","N","O","P","Q","R","S","T","U","V","W","X","Y","Z">>
DigitSeq == <<"0","1","2","3","4","5","6","7","8","9">>

Range(s) == {s[i] : i \in 1..Len(s)}
Lower == Range(LowerSeq)
Upper == Range(UpperSeq)
Digit == Range(DigitSeq)
WordChars == Lower \cup Upper \cup Digit \cup {"_"}
SpaceChars == {" ", "\t", "\n", "\r", "\f"}

IndexIn(s, c) == CHOOSE i \in 1..Len(s) : s[i] = c

\* str.lower / str.upper on one character
LowerChar(c) == IF c \in Upper THEN LowerSeq[IndexIn(UpperSeq, c)] ELSE c
UpperChar(c) == IF c \in Lower THEN UpperSeq[IndexIn(LowerSeq, c)] ELSE c
LowerStr(s) == [i \in 1..Len(s) |-> LowerChar(s[i])]
UpperStr(s) == [i \in 1..Len(s) |-> UpperChar(s[i])]

Min(S) == CHOOSE x \in S : \A y \in S : x <= y
Max(S) == CHOOSE x \in S : \A y \in S : x >= y

\* ''.join(parts)
RECURSIVE Cat(_)
Cat(parts) == IF parts = <<>> THEN <<>> ELSE Head(parts) \o Cat(Tail(parts))

\* text[i:] starts with pat (i is 1-based)
StartsWithAt(text, i, pat) ==
    /\ i >= 1
    /\ i + Len(pat) - 1 <= Len(text)
    /\ \A k \in 1..Len(pat) : text[i + k - 1] = pat[k]

\* the same, ignoring case (re.IGNORECASE on a literal)
StartsWithAtNoCase(text, i, pat) ==
    /\ i >= 1
    /\ i + Len(pat) - 1 <= Len(text)
    /\ \A k \in 1..Len(pat) : LowerChar(text[i + k - 1]) = LowerChar(pat[k])

\* str.find from position `from` (1-based); 0 when absent
Find(text, pat, from) ==
    LET S == {i \in from..(Len(text) - Len(pat) + 1) : StartsWithAt(text, i, pat)}
    IN  IF S = {} THEN 0 ELSE Min(S)

\* str.replace(old, new): every non-overlapping occurrence, left to right
\* (old is never empty here: it always holds a marker)
RECURSIVE ReplaceFrom(_, _, _, _)
ReplaceFrom(text, old, new, from) ==
    LET i == Find(text, old, from)
    IN  IF i = 0 THEN SubSeq(text, from, Len(text))
        ELSE SubSeq(text, from, i - 1) \o new \o ReplaceFrom(text, old, new, i + Len(old))
Replace(text, old, new) == ReplaceFrom(text, old, new, 1)

\* str.strip()
Strip(s) ==
    LET K == {i \in 1..Len(s) : s[i] \notin SpaceChars}
    IN  IF K = {} THEN <<>> ELSE SubSeq(s, Min(K), Max(K))

\* s.split("{")[0]
BeforeBrace(s) ==
    LET i == Find(s, <<"{">>, 1)
    IN  IF i = 0 THEN s ELSE SubSeq(s, 1, i - 1)

\* str.split(): the number of whitespace-separated words
WordCount(s) ==
    Cardinality({i \in 1..Len(s) :
        s[i] \notin SpaceChars /\ (i = 1 \/ s[i - 1] \in SpaceChars)})

\* html.escape(s, quote=True)
EscapeChar(c) ==
    CASE c = "&"  -> <<"&","a","m","p",";">>
      [] c = "<"  -> <<"&","l","t",";">>
      [] c = ">"  -> <<"&","g","t",";">>
      [] c = "\"" -> <<"&","q","u","o","t",";">>
      [] c = "'"  -> <<"&","#","x","2","7",";">>
      [] OTHER    -> <<c>>
RECURSIVE EscapeFrom(_, _)
EscapeFrom(s, i) == IF i > Len(s) THEN <<>> ELSE EscapeChar(s[i]) \o EscapeFrom(s, i + 1)
Escape(s) == EscapeFrom(s, 1)

\* str(n) for n >= 0
RECURSIVE Str(_)
Str(n) == IF n < 10 THEN <<DigitSeq[n + 1]>> ELSE Str(n \div 10) \o <<DigitSeq[(n % 10) + 1]>>

\* string order (code point order of digits, ":", letters and "|")
Ord(c) == IF c \in Digit THEN IndexIn(DigitSeq, c)
          ELSE IF c \in Upper THEN 100 + IndexIn(UpperSeq, c)
          ELSE IF c \in Lower THEN 200 + IndexIn(LowerSeq, c)
          ELSE IF c = ":" THEN 11 ELSE IF c = "|" THEN 300 ELSE 0
StrLess(a, b) ==
    \E k \in 1..(Len(a) + 1) :
        /\ k <= Len(b)
        /\ \A j \in 1..(k - 1) : a[j] = b[j]
        /\ (k = Len(a) + 1 \/ Ord(a[k]) < Ord(b[k]))

----------------------------------------------------------------------------
(* Reference markers and the regular expressions of the source.            *)

\* f"{{{strongs_number}}}"
Marker(sn) == <<"{">> \o sn \o <<"}">>

\* the first index >= j of text that holds no digit (\d+ is greedy)
DigitsEnd(text, j) ==
    Min({e \in j..(Len(text) + 1) : e = Len(text) + 1 \/ text[e] \notin Digit})

\* [HG]\d+ at position j: the position after it, or 0 when it does not match
IdEndAt(text, j) ==
    IF j + 1 <= Len(text) /\ text[j] \in {"H", "G"} /\ text[j + 1] \in Digit
    THEN DigitsEnd(text, j + 1) ELSE 0

\* STRONGS_REGEX = {([HG]\d+)} at position i: the length of the match, or 0
MarkerLenAt(text, i) ==
    IF i <= Len(text) /\ text[i] = "{"
    THEN LET e == IdEndAt(text, i + 1)
         IN  IF e # 0 /\ e <= Len(text) /\ text[e] = "}" THEN e - i + 1 ELSE 0
    ELSE 0

\* \{(\([HG]\d+\))\} at position i
ParenMarkerLenAt(text, i) ==
    IF i + 1 <= Len(text) /\ text[i] = "{" /\ text[i + 1] = "("
    THEN LET e == IdEndAt(text, i + 2)
         IN  IF e # 0 /\ e + 1 <= Len(text) /\ text[e] = ")" /\ text[e + 1] = "}"
             THEN e - i + 2 ELSE 0
    ELSE 0

\* \{[HG]\d+\)\} at position i
HalfParenMarkerLenAt(text, i) ==
    IF i <= Len(text) /\ text[i] = "{"
    THEN LET e == IdEndAt(text, i + 1)
         IN  IF e # 0 /\ e + 1 <= Len(text) /\ text[e] = ")" /\ text[e + 1] = "}"
             THEN e - i + 2 ELSE 0
    ELSE 0

\* a finite set of integers as an ascending sequence
RECURSIVE Ascending(_)
Ascending(S) == IF S = {} THEN <<>> ELSE <<Min(S)>> \o Ascending(S \ {Min(S)})

\* Every match of the three marker patterns holds exactly one "{", its first
\* character, so two matches never overlap and the leftmost-first scan of
\* re.findall / re.sub finds every position where the pattern matches.
\* MatchSpans: the matches in text order, each <<start, length>>.
\* pattern: "plain" (lines 9, 398), "paren" (line 399) or "half" (line 400).
PatternLenAt(pattern, text, i) ==
    CASE pattern = "plain" -> MarkerLenAt(text, i)
      [] pattern = "paren" -> ParenMarkerLenAt(text, i)
      [] pattern = "half"  -> HalfParenMarkerLenAt(text, i)
MatchSpans(text, pattern) ==
    LET starts == Ascending({i \in 1..Len(text) :
                       text[i] = "{" /\ PatternLenAt(pattern, text, i) > 0})
    IN  [k \in 1..Len(starts) |-> <<starts[k], PatternLenAt(pattern, text, starts[k])>>]

\* re.sub(pattern, '', text): one pass, the matches cut out
RECURSIVE CutSpans(_, _, _)
CutSpans(text, from, spans) ==
    IF spans = <<>> THEN SubSeq(text, from, Len(text))
    ELSE SubSeq(text, from, Head(spans)[1] - 1)
         \o CutSpans(text, Head(spans)[1] + Head(spans)[2], Tail(spans))
ReSubEmpty(text, pattern) == CutSpans(text, 1, MatchSpans(text, pattern))

\* extract_strongs_numbers(text): the ids of the markers, in text order
extract_strongs_numbers(text) ==
    LET spans == MatchSpans(text, "plain")
    IN  [k \in 1..Len(spans) |-> SubSeq(text, spans[k][1] + 1, spans[k][1] + spans[k][2] - 2)]

\* \b at position i (between text[i-1] and text[i])
IsWordAt(text, i) == i >= 1 /\ i <= Len(text) /\ text[i] \in WordChars
Boundary(text, i) == IsWordAt(text, i - 1) # IsWordAt(text, i)

\* every position where `pat` occurs
Occurrences(text, pat) ==
    {j \in 1..(Len(text) - Len(pat) + 1) : text[j] = pat[1] /\ StartsWithAt(text, j, pat)}

\* re.search(r'\b([\w\']*)\{ID\}', text).  [\w']* is greedy and the marker
\* begins with "{", which [\w'] does not match, so a match that starts at i
\* takes the whole run of [\w'] from i and the marker must follow that run:
\* the starts of a match are the \b positions of the run that ends at a
\* marker.  re.search returns the match with the leftmost start.
\* Result: [found, start, word].
WordRunStart(text, j) ==
    Min({i \in 1..j : \A k \in i..(j - 1) : text[k] \in WordChars \cup {"'"}})
word_search(text, sn) ==
    LET starts == UNION {
            {i \in WordRunStart(text, j)..j : Boundary(text, i)} :
            j \in Occurrences(text, Marker(sn))}
    IN  IF starts = {} THEN [found |-> FALSE, start |-> 0, word |-> <<>>]
        ELSE LET i == Min(starts)
                 j == Min({e \in i..(Len(text) + 1) :
                              e = Len(text) + 1 \/ text[e] \notin WordChars \cup {"'"}})
             IN  [found |-> TRUE, start |-> i, word |-> SubSeq(text, i, j - 1)]

\* re.search(r'{ID}\'{[HG]\d+}', text): is there a match
alt_search(text, sn) ==
    \E j \in Occurrences(text, Marker(sn)) :
        LET q == j + Len(sn) + 2
        IN  q <= Len(text) /\ text[q] = "'" /\ MarkerLenAt(text, q + 1) > 0

\* re.search(r'\b' + re.escape(translation) + r'\s*\{ID\}', text, re.IGNORECASE).
\* \s* is greedy and is followed by "{": the translation ends where a run of
\* whitespace before a marker begins, or anywhere inside that run when the
\* translation itself ends in whitespace.  Result: [found, start, matched_text].
SpaceRunStart(text, j) ==
    Min({i \in 1..j : \A k \in i..(j - 1) : text[k] \in SpaceChars})
MarkerOccurrencesNoCase(text, sn) ==
    {j \in 1..(Len(text) - Len(sn) - 1) : text[j] = "{" /\ StartsWithAtNoCase(text, j, Marker(sn))}
phrase_search(text, translation, sn) ==
    LET cands == UNION {
            {[start |-> e - Len(translation), stop |-> j + Len(sn) + 1] :
                e \in {x \in SpaceRunStart(text, j)..j :
                          /\ x - Len(translation) >= 1
                          /\ StartsWithAtNoCase(text, x - Len(translation), translation)
                          /\ Boundary(text, x - Len(translation))}} :
            j \in MarkerOccurrencesNoCase(text, sn)}
    IN  IF cands = {} THEN [found |-> FALSE, start |-> 0, matched_text |-> <<>>]
        ELSE LET s == Min({c.start : c \in cands})
                 \* from one start the regex engine tries the longest \s* first
                 c == CHOOSE c \in cands : c.start = s /\ \A d \in cands : d.start = s => d.stop <= c.stop
             IN  [found |-> TRUE, start |-> s, matched_text |-> SubSeq(text, s, c.stop)]

----------------------------------------------------------------------------
(* Program constants of transliterate_chapter.                             *)

stop_strongs == {
    <<"H","1","9","3","1">>, <<"H","1","9","3","3">>, <<"H","3","0","6","8">>, <<"H","8","5","3">>,
    <<"H","8","5","4">>, <<"H","3","5","8","8">>, <<"H","8","3","4">>, <<"H","4","4","8","0">>,
    <<"H","4","1","3">>, <<"H","5","9","2","1">>, <<"H","5","9","7","3">>, <<"H","1","5","7","1">>,
    <<"H","5","1","8">>, <<"H","3","8","0","8">>, <<"H","1","9","6","1">>, <<"H","1","9","9","2">>,
    <<"G","2","5","3","2">>, <<"G","1","1","6","1">>, <<"G","1","5","1","0">>, <<"G","3","5","8","8">>,
    <<"G","3","7","5","4">>, <<"G","3","7","7","7">>, <<"G","1","0","6","3">>, <<"G","1","2","2","3">>,
    <<"G","2","5","3","1">>, <<"G","1","7","2","2">>, <<"G","1","5","1","9">>, <<"G","1","9","0","9">>,
    <<"G","3","3","2","6">>, <<"G","3","7","5","6">>, <<"G","1","1","6","3">> }

english_stopwords == {
    <<"a">>, <<"a","n">>, <<"a","n","d">>, <<"a","s">>, <<"a","t">>, <<"b","u","t">>,
    <<"b","y">>, <<"f","o","r">>, <<"f","r","o","m">>, <<"h","e">>, <<"h","e","r">>, <<"h","i","s">>,
    <<"i">>, <<"i","n">>, <<"i","s">>, <<"i","t">>, <<"n","o","r">>, <<"n","o","t">>,
    <<"o","f">>, <<"o","n">>, <<"o","r">>, <<"o","u","r">>, <<"s","h","e">>, <<"s","o">>,
    <<"t","h","a","t">>, <<"t","h","e">>, <<"t","h","e","i","r">>, <<"t","h","e","m">>, <<"t","h","e","n">>, <<"t","h","e","y">>,
    <<"t","h","i","s">>, <<"t","h","o","s","e">>, <<"t","o">>, <<"w","a","s">>, <<"w","e">>, <<"w","e","r","e">>,
    <<"w","h","e","n">>, <<"w","h","i","c","h">>, <<"w","h","o">>, <<"w","i","t","h">>, <<"y","o","u">>, <<"y","o","u","r">> }

min_english_highlight_length == 4
min_repeat_count == 3
DescriptionLimit == 180

\* the ids that occur in the modelled corpora
Ids == {<<"H","1">>, <<"H","2">>, <<"H","3">>, <<"H","8","5","3">>}

----------------------------------------------------------------------------
(* Rarity classification.                                                  *)

GlobalRareMax == 10
UnitClusterGlobalMax == 50
UnitClusterPeakMin == 3

_rule_global_rare(ctx) == ctx.global_count <= GlobalRareMax

\* a unit rule that wants a peak above the threshold, and one that holds above
\* the global threshold instead of below it: C8 and C9 reject them
_rule_unit_cluster_strict_peak(ctx) ==
    ctx.global_count <= UnitClusterGlobalMax /\ ctx.unit_peak > UnitClusterPeakMin
_rule_unit_cluster_above(ctx) ==
    ctx.global_count > UnitClusterGlobalMax /\ ctx.unit_peak >= UnitClusterPeakMin

_rule_unit_cluster(ctx) ==
    ctx.global_count <= UnitClusterGlobalMax /\ ctx.unit_peak >= UnitClusterPeakMin

\* the ordered rule list: (name, predicate) pairs
UNCOMMON_RULES == <<"global", "unit">>
RuleHolds(name, ctx) ==
    CASE name = "global" -> _rule_global_rare(ctx)
      [] name = "unit"   -> _rule_unit_cluster(ctx)

\* the for loop of classify_uncommon: the first rule that matches returns
RECURSIVE ClassifyFrom(_, _)
ClassifyFrom(k, ctx) ==
    IF k > Len(UNCOMMON_RULES)
    THEN [is_uncommon |-> FALSE, rule |-> None,
          global_count |-> ctx.global_count, unit_peak |-> ctx.unit_peak]
    ELSE IF RuleHolds(UNCOMMON_RULES[k], ctx)
         THEN [is_uncommon |-> TRUE, rule |-> UNCOMMON_RULES[k],
               global_count |-> ctx.global_count, unit_peak |-> ctx.unit_peak]
         ELSE ClassifyFrom(k + 1, ctx)
classify_uncommon(ctx) == ClassifyFrom(1, ctx)

----------------------------------------------------------------------------
(* Colors.                                                                 *)

HexDigits == <<"0","1","2","3","4","5","6","7","8","9","a","b","c","d","e","f">>
HexVal(c) == IndexIn(HexDigits, LowerChar(c)) - 1
\* int(s, 16): the value, or -1 for the ValueError of an empty or non-hex s
ParseHex(s) ==
    IF s = <<>> \/ \E i \in 1..Len(s) : LowerChar(s[i]) \notin Range(HexDigits) THEN -1
    ELSE IF Len(s) = 1 THEN HexVal(s[1]) ELSE 16 * HexVal(s[1]) + HexVal(s[2])

\* hex_color[i:i+2] for a 0-based i (a Python slice clips at the end)
Slice2(s, i) == SubSeq(s, i + 1, IF i + 2 <= Len(s) THEN i + 2 ELSE Len(s))

\* is_light_color(hex_color): [raised, light]; int() raises ValueError on an
\* empty or non-hex slice.  light is l > 0.65, where l = (max + min) / 2 of
\* the three channels / 255; for integers a, b in 0..255,
\* (a + b) / 510 > 0.65 exactly when a + b >= 332.
LightnessSumMin == 332
is_light_color(hex_color) ==
    LET rgb == [k \in 1..3 |-> ParseHex(Slice2(hex_color, 2 * k - 1))]
    IN  IF \E k \in 1..3 : rgb[k] = -1 THEN [raised |-> TRUE, light |-> FALSE]
        ELSE [raised |-> FALSE,
              light |-> Max({rgb[1], rgb[2], rgb[3]}) + Min({rgb[1], rgb[2], rgb[3]})
                        >= LightnessSumMin]

\* generate_repeat_colors(strongs_number): (base_color, accent_color), a
\* function of the SHA-256 digest of the id; the values that a run of the
\* source returns for the ids of the modelled corpora
RepeatColorTable ==
    (<<"H","1">> :> <<<<"#","3","3","8","b","a","c">>, <<"#","8","0","b","9","c","f">>>>) @@
    (<<"H","2">> :> <<<<"#","4","8","4","1","8","e">>, <<"#","7","d","7","5","c","a">>>>) @@
    (<<"H","3">> :> <<<<"#","4","8","3","a","8","c">>, <<"#","7","d","6","f","c","8">>>>) @@
    (<<"H","8","5","3">> :> <<<<"#","a","f","3","9","5","2">>, <<"#","d","1","8","7","9","7">>>>)

\* hashlib.sha256(strongs_number.encode('utf-8')).digest(): its first three
\* bytes, for the ids of the modelled corpora
Sha256Head ==
    (<<"H","1">> :> <<139, 247, 151>>) @@
    (<<"H","2">> :> <<174, 26, 100>>) @@
    (<<"H","3">> :> <<177, 76, 69>>) @@
    (<<"H","8","5","3">> :> <<246, 199, 181>>)

\* '{:02x}'.format(n) for n in 0..255
Hex2(n) == <<HexDigits[(n \div 16) + 1], HexDigits[(n % 16) + 1]>>

\* Saturation and lightness are counted in units of 1/5100 and the hue in
\* units of 1/510: in these units every value that lines 120-130 compute
\* from three bytes is an integer.
\* colorsys.hls_to_rgb: m2 for lightness l and saturation s, in units of
\* 1/5100^2 (m1 is 2 * l - m2), and int(v * 255) for v = _v(m1, m2, hue)
\* with the hue y in 0..509; 255 / (5100^2 * 85) = 1 / 8670000.  The
\* arithmetic is in exact fractions; the floats of the source agree with it
\* on the digests of Sha256Head.
hls_m2(l, s) == IF 2 * l <= 5100 THEN l * (5100 + s) ELSE (l + s) * 5100 - l * s
hls_channel(m1, m2, y) ==
    (IF y < 85 THEN m1 * 85 + (m2 - m1) * y
     ELSE IF y < 255 THEN m2 * 85
     ELSE IF y < 340 THEN m1 * 85 + (m2 - m1) * (340 - y)
     ELSE m1 * 85) \div 8670000

\* hls_to_hex(h, l, s), lines 113-115: the channels are those of the hues
\* h + 1/3, h and h - 1/3
hls_to_hex(h, l, s) ==
    IF s = 0
    THEN <<"#">> \o Hex2((l * 255) \div 5100) \o Hex2((l * 255) \div 5100)
                 \o Hex2((l * 255) \div 5100)
    ELSE <<"#">>
         \o Hex2(hls_channel(2 * l * 5100 - hls_m2(l, s), hls_m2(l, s), (h + 170) % 510))
         \o Hex2(hls_channel(2 * l * 5100 - hls_m2(l, s), hls_m2(l, s), h % 510))
         \o Hex2(hls_channel(2 * l * 5100 - hls_m2(l, s), hls_m2(l, s), (h + 340) % 510))

\* lines 120-132 on the first three bytes of the digest: hue = digest[0] / 255,
\* saturation = 0.35 + digest[1] / 255 * 0.2 = (1785 + 4 * digest[1]) / 5100,
\* lightness = 0.35 + digest[2] / 255 * 0.15 = 3 * (595 + digest[2]) / 5100;
\* 0.22 = 1122 / 5100, 0.85 = 4335 / 5100, 0.1 = 510 / 5100, 0.45 = 2295 / 5100
repeat_colors_of(d0, d1, d2) ==
    <<hls_to_hex(2 * d0, 3 * (595 + d2), 1785 + 4 * d1),
      hls_to_hex(2 * d0, Min({4335, 3 * (595 + d2) + 1122}), Min({2295, 1785 + 4 * d1 + 510}))>>

\* a derivation from the built-in hash() of the id, which differs from one
\* process to the next, in place of its SHA-256 digest: under another seed
\* the first byte is another.  C22 rejects it.
generate_repeat_colors_by_builtin_hash(sn) ==
    repeat_colors_of((Sha256Head[sn][1] + hash_seed) % 256, Sha256Head[sn][2], Sha256Head[sn][3])

generate_repeat_colors(sn) ==
    repeat_colors_of(Sha256Head[sn][1], Sha256Head[sn][2], Sha256Head[sn][3])
----------------------------------------------------------------------------
(* Helpers nested in transliterate_chapter.                                *)

Vowels == {"a", "e", "i", "o", "u", "A", "E", "I", "O", "U"}
IsConsonantLetter(c) == c \in (Lower \cup Upper) \ Vowels

\* consonant_key(text): the letters, vowels removed, upper-cased.  The
\* modelled texts are ASCII, which strip_diacritics (NFKD, combining
\* characters dropped) leaves as they are.
consonant_key(text) == UpperStr(SelectSeq(text, IsConsonantLetter))

\* a lexicon entry; a field that is missing, None or '' is the empty string
EmptyEntry == [xlit |-> <<>>, lemma |-> <<>>, pronounce |-> <<>>, description |-> <<>>]

Truncate(s, n) == SubSeq(s, 1, IF Len(s) < n THEN Len(s) ELSE n)
RootKeyLength == 6

\* derive_root(entry, fallback_xlit)
derive_root(entry, fallback_xlit) ==
    LET root == consonant_key(entry.lemma)
    IN  Truncate(IF root # <<>> THEN root
                 ELSE consonant_key(IF fallback_xlit # <<>> THEN fallback_xlit ELSE entry.xlit),
                 RootKeyLength)

\* safe_attr(val)
safe_attr(val) == Escape(val)

\* sep.join(parts)
RECURSIVE Join(_, _)
Join(parts, sep) ==
    IF parts = <<>> THEN <<>>
    ELSE IF Len(parts) = 1 THEN parts[1]
    ELSE parts[1] \o sep \o Join(Tail(parts), sep)

\* should_skip_english_highlight(display_text, has_transliteration)
IsLetterOrApostrophe(c) == c \in Lower \cup Upper \cup {"'"}
\* the test without line 247, which C10 rejects
should_skip_any_highlight(display_text, has_transliteration) ==
    LET normalized == LowerStr(SelectSeq(display_text, IsLetterOrApostrophe))
    IN  \/ Len(normalized) < min_english_highlight_length
        \/ normalized \in english_stopwords

should_skip_english_highlight(display_text, has_transliteration) ==
    IF has_transliteration THEN FALSE
    ELSE LET normalized == LowerStr(SelectSeq(display_text, IsLetterOrApostrophe))
         IN  \/ Len(normalized) < min_english_highlight_length
             \/ normalized \in english_stopwords

\* a tag that is a button for the globally rare ids only, which C12 rejects
tag_name_global_only(uncommon_meta) ==
    IF uncommon_meta.rule = "global" THEN <<"b","u","t","t","o","n">> ELSE <<"s","p","a","n">>

\* tag_name of build_span
tag_name(uncommon_meta) == IF uncommon_meta.is_uncommon THEN <<"b","u","t","t","o","n">> ELSE <<"s","p","a","n">>

\* text_color of build_span: [raised, value]
text_color(base_color) ==
    LET l == is_light_color(Tail(base_color))
    IN  [raised |-> l.raised, value |-> IF l.light THEN <<"#","0","0","0","0","0","0">> ELSE <<"#","f","f","f","f","f","f">>]

Attr(name, val) == name \o <<"=","\"">> \o val \o <<"\"">>
OptAttr(name, val) == IF val # <<>> THEN <<Attr(name, safe_attr(val))>> ELSE <<>>

\* build_span(strongs_number, display_text, original_text, base_color,
\*            has_transliteration, metadata, uncommon_meta), with the
\* repeated_colors of the enclosing call.  Result: [raised, html].
build_span(strongs_number, display_text, original_text, base_color, has_transliteration, metadata, uncommon_meta, repeated) ==
    LET is_uncommon == uncommon_meta.is_uncommon
        tag == tag_name(uncommon_meta)
        classes == <<<<"h","i","g","h","l","i","g","h","t","e","d","-","w","o","r","d">>>>
                   \o (IF has_transliteration THEN <<<<"t","r","a","n","s","l","i","t","e","r","a","t","e","d">>>> ELSE <<>>)
                   \o (IF is_uncommon THEN <<<<"u","n","c","o","m","m","o","n","-","w","o","r","d">>>> ELSE <<>>)
                   \o (IF strongs_number \in repeated THEN <<<<"r","e","p","e","a","t","e","d">>>> ELSE <<>>)
        data_original_attr ==
            IF has_transliteration
            THEN <<" ">> \o Attr(<<"d","a","t","a","-","o","r","i","g","i","n","a","l">>, Escape(original_text)) ELSE <<>>
        counts_suffix ==
            CASE uncommon_meta.rule = "global" ->
                    <<" ","U+00B7"," ">> \o Str(uncommon_meta.global_count) \o <<"x">>
              [] uncommon_meta.rule = "unit" ->
                    <<" ","U+00B7"," ">> \o Str(uncommon_meta.global_count) \o <<"x">>
                    \o <<" ","U+00B7"," ">> \o Str(uncommon_meta.unit_peak) \o <<"x">>
              [] OTHER -> <<>>
        label_name == IF metadata.xlit # <<>> THEN metadata.xlit
                      ELSE IF original_text # <<>> THEN original_text ELSE display_text
        uncommon_label == <<"S","t","r","o","n","g","'","s"," ">> \o strongs_number \o <<" ","U+00B7"," ">> \o label_name \o counts_suffix
        data_attrs ==
            <<Attr(<<"d","a","t","a","-","s","t","r","o","n","g","s">>, safe_attr(strongs_number))>>
            \o (IF is_uncommon
                THEN <<Attr(<<"d","a","t","a","-","u","n","c","o","m","m","o","n">>, <<"t","r","u","e">>),
                       Attr(<<"d","a","t","a","-","u","n","c","o","m","m","o","n","-","i","n","f","o">>, safe_attr(uncommon_label))>>
                ELSE <<>>)
            \o OptAttr(<<"d","a","t","a","-","x","l","i","t","e","r","a","l">>, metadata.xlit)
            \o OptAttr(<<"d","a","t","a","-","l","e","m","m","a">>, metadata.lemma)
            \o OptAttr(<<"d","a","t","a","-","p","r","o","n","o","u","n","c","e">>, metadata.pronounce)
            \o OptAttr(<<"d","a","t","a","-","r","o","o","t","k","e","y">>, metadata.root)
            \o OptAttr(<<"d","a","t","a","-","d","e","s","c","r","i","p","t","i","o","n">>, Truncate(metadata.description, DescriptionLimit))
            \o OptAttr(<<"d","a","t","a","-","g","l","o","s","s">>, metadata.gloss)
        data_attr_str == <<" ">> \o Join(data_attrs, <<" ">>)
        fg == IF base_color # <<>> THEN text_color(base_color)
              ELSE [raised |-> FALSE, value |-> <<>>]
        colors == generate_repeat_colors(strongs_number)
        style_parts ==
            (IF base_color # <<>>
             THEN <<<<"b","a","c","k","g","r","o","u","n","d","-","c","o","l","o","r",":"," ">> \o base_color \o <<";"," ","c","o","l","o","r",":"," ">> \o fg.value \o <<";">>>>
             ELSE <<>>)
            \o (IF strongs_number \in repeated
                THEN <<<<"c","o","l","o","r",":"," ","#","1","f","0","f","0","b",";"," ","b","a","c","k","g","r","o","u","n","d","-","c","o","l","o","r",":"," ">> \o colors[2]
                       \o <<";"," ","b","o","r","d","e","r",":"," ","1","p","x"," ","s","o","l","i","d"," ">> \o colors[1] \o <<";">>>>
                ELSE <<>>)
        style_attr == IF style_parts # <<>>
                      THEN <<" ">> \o Attr(<<"s","t","y","l","e">>, Join(style_parts, <<" ">>)) ELSE <<>>
        type_attr == IF tag = <<"b","u","t","t","o","n">> THEN <<" ","t","y","p","e","=","\"","b","u","t","t","o","n","\"">> ELSE <<>>
    IN  IF fg.raised THEN [raised |-> "ValueError", html |-> <<>>]
        ELSE [raised |-> "",
              html |-> <<"<">> \o tag \o <<" ">> \o Attr(<<"c","l","a","s","s">>, Join(classes, <<" ">>))
                       \o data_original_attr \o data_attr_str \o style_attr \o type_attr
                       \o <<">">> \o display_text \o <<"<","/">> \o tag \o <<">">>]

----------------------------------------------------------------------------
(* transliterate_chapter: what it computes before the rendering loop.      *)

\* an optional value: None is the empty set, a value x is {x}
NoneOpt == {}
Some(x) == {x}
TheValue(opt) == CHOOSE x \in opt : TRUE

\* strongs_lookup.get(sn, {})
lookup_get(lexicon, sn) == IF sn \in DOMAIN lexicon THEN lexicon[sn] ELSE EmptyEntry

\* the verses of the whole book, which C14 rejects
chapter_data_of_book(kjv, b, ch) ==
    LET InBook(verse) == verse.book_name = b
        sel == SelectSeq(kjv, InBook)
    IN  [k \in 1..Len(sel) |->
            [text |-> sel[k].text, strongs |-> extract_strongs_numbers(sel[k].text),
             verse |-> Str(sel[k].verse)]]

\* chapter_data (lines 180-186): the verses of the book and chapter, in
\* corpus order, each with a copy of its text and the ids of its markers
chapter_data_of(kjv, b, ch) ==
    LET InChapter(verse) == verse.book_name = b /\ verse.chapter = ch
        sel == SelectSeq(kjv, InChapter)
    IN  [k \in 1..Len(sel) |->
            [text |-> sel[k].text,
             strongs |-> extract_strongs_numbers(sel[k].text),
             verse |-> Str(sel[k].verse)]]

\* the corpus after a write to a chapter_data that holds the records of the
\* corpus themselves, which C23 rejects
corpus_after_write_shared(kjv, b, ch, k, text) ==
    LET places == {i \in 1..Len(kjv) : kjv[i].book_name = b /\ kjv[i].chapter = ch}
        place == CHOOSE i \in places : Cardinality({j \in places : j <= i}) = k
    IN  [kjv EXCEPT ![place].text = text]

\* The corpus after `verse['text'] = text` on the k-th record of chapter_data.
\* The records of chapter_data are dicts that lines 180-186 build, with the
\* text of a verse as the value of their own key: the assignment rebinds the
\* key of the record of chapter_data and reaches no record of the corpus.
corpus_after_write(kjv, b, ch, k, text) == kjv

\* Two mappings that the code does not build.  The first has an entry for
\* every id of the lexicon that has a romanization, with or without an
\* override; C3 rejects it.  The second has an entry for every id of the
\* override store, romanized by its first translation when the lexicon does
\* not know the id; C4 rejects it.
replacement_mapping_of_lexicon(store, lexicon) ==
    LET resolved == {sn \in DOMAIN lexicon : lexicon[sn].xlit # <<>>}
    IN  [sn \in resolved |->
            [xlit |-> lexicon[sn].xlit,
             color |-> IF sn \in DOMAIN store THEN store[sn].color ELSE <<>>,
             lemma |-> lexicon[sn].lemma,
             pronounce |-> lexicon[sn].pronounce,
             description |-> lexicon[sn].description,
             root |-> derive_root(lexicon[sn], lexicon[sn].xlit)]]
replacement_mapping_of_store(store, lexicon) ==
    LET xlit_of(sn) == IF lookup_get(lexicon, sn).xlit # <<>>
                       THEN lookup_get(lexicon, sn).xlit
                       ELSE Head(store[sn].translations)
        resolved == {sn \in DOMAIN store :
                        lookup_get(lexicon, sn).xlit # <<>> \/ store[sn].translations # <<>>}
    IN  [sn \in resolved |->
            [xlit |-> xlit_of(sn),
             color |-> store[sn].color,
             lemma |-> lookup_get(lexicon, sn).lemma,
             pronounce |-> lookup_get(lexicon, sn).pronounce,
             description |-> lookup_get(lexicon, sn).description,
             root |-> derive_root(lookup_get(lexicon, sn), xlit_of(sn))]]

\* replacement_mapping (lines 188-200): one entry per id of the override
\* store whose lexicon entry has a romanization
replacement_mapping_of(store, lexicon) ==
    LET resolved == {sn \in DOMAIN store : lookup_get(lexicon, sn).xlit # <<>>}
    IN  [sn \in resolved |->
            LET strong_entry == lookup_get(lexicon, sn)
            IN  [xlit |-> strong_entry.xlit,
                 color |-> store[sn].color,
                 lemma |-> strong_entry.lemma,
                 pronounce |-> strong_entry.pronounce,
                 description |-> strong_entry.description,
                 root |-> derive_root(strong_entry, strong_entry.xlit)]]

\* Counter(iterable of ids): id -> number of occurrences
Counter(ids) ==
    [sn \in Range(ids) |-> Cardinality({k \in 1..Len(ids) : ids[k] = sn})]

\* count_strongs_in_verses(verses, allowed); allowed = {} stands for None
\* (an empty `allowed` is falsy and filters nothing)
RECURSIVE AllMarkers(_)
AllMarkers(verses) ==
    IF verses = <<>> THEN <<>>
    ELSE extract_strongs_numbers(Head(verses).text) \o AllMarkers(Tail(verses))
count_strongs_in_verses(verses, allowed) ==
    LET matches == AllMarkers(verses)
        IsAllowed(m) == m \in allowed
    IN  Counter(IF allowed = {} THEN matches ELSE SelectSeq(matches, IsAllowed))

\* strongs_counter (lines 202-206)
RECURSIVE ChapterMarkers(_)
ChapterMarkers(data) ==
    IF data = <<>> THEN <<>> ELSE Head(data).strongs \o ChapterMarkers(Tail(data))
strongs_counter_of(data) == Counter(ChapterMarkers(data))

\* an order that puts the larger id first among equal counts, which C24 rejects
SortsBefore_larger_id_first(counter, a, b) ==
    \/ counter[a] > counter[b]
    \/ counter[a] = counter[b] /\ StrLess(b, a)

\* sorted(repeated_candidates, key=lambda item: (-item[1], item[0]))
SortsBefore(counter, a, b) ==
    \/ counter[a] > counter[b]
    \/ counter[a] = counter[b] /\ StrLess(a, b)
RECURSIVE SortedCandidates(_, _)
SortedCandidates(counter, S) ==
    IF S = {} THEN <<>>
    ELSE LET first == CHOOSE a \in S : \A b \in S \ {a} : SortsBefore(counter, a, b)
         IN  <<first>> \o SortedCandidates(counter, S \ {first})

\* candidates chosen without the stop-list, and with a threshold of 2: C6
\* rejects the first, C7 the second
repeated_candidates_with_stop_list(counter) ==
    {num \in DOMAIN counter : counter[num] >= min_repeat_count}
repeated_candidates_from_two(counter) ==
    {num \in DOMAIN counter : counter[num] >= 2 /\ num \notin stop_strongs}

\* repeated_candidates (lines 207-211)
repeated_candidates(counter) ==
    {num \in DOMAIN counter : counter[num] >= min_repeat_count /\ num \notin stop_strongs}

\* seq[:n] for an integer n
SliceTo(seq, n) ==
    IF n >= 0 THEN SubSeq(seq, 1, IF n < Len(seq) THEN n ELSE Len(seq))
    ELSE SubSeq(seq, 1, IF Len(seq) + n > 0 THEN Len(seq) + n ELSE 0)

\* repeated_strongs (lines 212-215) for an integer cap
repeated_strongs_of(counter, cap) ==
    Range(SliceTo(SortedCandidates(counter, repeated_candidates(counter)), cap))

\* get_verses_by_book: the index it builds, book -> verses in corpus order
verses_by_book_of(kjv) ==
    [b \in {kjv[k].book_name : k \in 1..Len(kjv)} |->
        LET OfBook(verse) == verse.book_name = b IN SelectSeq(kjv, OfBook)]

\* a or b or c on integers (0 is falsy; so is a missing field)
Or3(a, b, c) == IF a # 0 THEN a ELSE IF b # 0 THEN b ELSE c

\* _unit_bounds(unit): <<start_ch, start_v, end_ch, end_v>>
_unit_bounds(unit) ==
    <<Or3(unit.start_chapter, unit.range_start.chapter, 0),
      Or3(unit.start_verse_absolute, unit.range_start.verse, 1),
      Or3(unit.end_chapter, unit.range_end.chapter, 0),
      Or3(unit.end_verse_absolute, unit.range_end.verse, 0)>>

\* the verses of the chapters of the unit, whatever their verse numbers,
\* which C25 rejects
_verses_for_unit_whole_chapters(index, b, unit) ==
    LET book_verses == IF b \in DOMAIN index THEN index[b] ELSE <<>>
        bounds == _unit_bounds(unit)
        Selected(verse) == ~(verse.chapter < bounds[1] \/ verse.chapter > bounds[3])
    IN  IF bounds[1] = 0 \/ bounds[3] = 0 THEN <<>> ELSE SelectSeq(book_verses, Selected)

\* _verses_for_unit(kjv_data, book, unit), given the book index
_verses_for_unit(index, b, unit) ==
    LET book_verses == IF b \in DOMAIN index THEN index[b] ELSE <<>>
        bounds == _unit_bounds(unit)
        start_ch == bounds[1]
        start_v == bounds[2]
        end_ch == bounds[3]
        end_v == bounds[4]
        Selected(verse) ==
            /\ ~(verse.chapter < start_ch \/ verse.chapter > end_ch)
            /\ ~(verse.chapter = start_ch /\ verse.verse < start_v)
            /\ ~(verse.chapter = end_ch /\ end_v # 0 /\ verse.verse > end_v)
    IN  IF start_ch = 0 \/ end_ch = 0 THEN <<>> ELSE SelectSeq(book_verses, Selected)

\* unit_max_counts (lines 224-233): id -> peak count over the active units
unit_max_counts_of(index, b, units, chapter_strongs_set) ==
    LET counts == [u \in 1..Len(units) |->
                      count_strongs_in_verses(_verses_for_unit(index, b, units[u]),
                                              chapter_strongs_set)]
        counted == UNION {DOMAIN counts[u] : u \in 1..Len(units)}
    IN  [num \in counted |->
            Max({counts[u][num] : u \in {x \in 1..Len(units) : num \in DOMAIN counts[x]}})]

CountGet(counter, num) == IF num \in DOMAIN counter THEN counter[num] ELSE 0

\* uncommon_lookup (lines 235-244)
uncommon_lookup_of(chapter_strongs_set, global_counts, unit_max_counts) ==
    [num \in chapter_strongs_set |->
        classify_uncommon([strongs |-> num,
                           global_count |-> CountGet(global_counts, num),
                           unit_peak |-> CountGet(unit_max_counts, num)])]

----------------------------------------------------------------------------
(* transliterate_chapter: one iteration of the marker loop (lines 318-397) *)

\* sorted(translations, key=lambda x: len(x.split()), reverse=True):
\* stable, so equal word counts keep their order
RemoveAt(seq, k) == SubSeq(seq, 1, k - 1) \o SubSeq(seq, k + 1, Len(seq))
RECURSIVE sorted_translations(_)
sorted_translations(translations) ==
    IF translations = <<>> THEN <<>>
    ELSE LET most == Max({WordCount(translations[k]) : k \in 1..Len(translations)})
             k == Min({x \in 1..Len(translations) : WordCount(translations[x]) = most})
         IN  <<translations[k]>> \o sorted_translations(RemoveAt(translations, k))

\* the for loop over sorted_translations: the first translation whose
\* phrase_match succeeds (lines 334-341)
RECURSIVE first_phrase_match(_, _, _)
first_phrase_match(text, translations, sn) ==
    IF translations = <<>> THEN [found |-> FALSE, start |-> 0, matched_text |-> <<>>]
    ELSE LET m == phrase_search(text, LowerStr(Head(translations)), sn)
         IN  IF m.found THEN m ELSE first_phrase_match(text, Tail(translations), sn)

NoCall(sn, outcome) ==
    [sn |-> sn, outcome |-> outcome, original |-> <<>>, display |-> <<>>,
     has_transliteration |-> FALSE, tag |-> <<>>, html |-> <<>>]

\* The body of `for strongs_number in verse['strongs']` on the verse text,
\* written as a chain of operators, each handing the values it computed to
\* the next.  env: [store, lexicon, mapping, repeated, uncommon].
\* Result: [text, raised, call]; call records what the iteration did:
\* outcome "alt" (line 321), "none" (no match), "suppressed" (lines 354-357,
\* 384-386), "element" (build_span returned) or "raised" (build_span raised),
\* the text the occurrence stands for (original), its display text, and the
\* element that build_span returned (html).

\* lines 359-368, 388-397: the element replaces the target
emit_element(text, target, call, span) ==
    IF span.raised # ""
    THEN [text |-> text, raised |-> span.raised,
          call |-> [call EXCEPT !.outcome = "raised", !.tag = <<>>]]
    ELSE [text |-> Replace(text, target, span.html), raised |-> "",
          call |-> [call EXCEPT !.html = span.html]]

\* lines 346-353, 376-383: meta
meta_of(xlit_info, strongs_meta, display_value, gloss) ==
    [xlit |-> IF xlit_info.xlit # <<>> THEN xlit_info.xlit ELSE strongs_meta.xlit,
     lemma |-> IF xlit_info.lemma # <<>> THEN xlit_info.lemma ELSE strongs_meta.lemma,
     pronounce |-> IF xlit_info.pronounce # <<>> THEN xlit_info.pronounce
                   ELSE strongs_meta.pronounce,
     description |-> IF xlit_info.description # <<>> THEN xlit_info.description
                     ELSE strongs_meta.description,
     root |-> IF xlit_info.root # <<>> THEN xlit_info.root
              ELSE derive_root(strongs_meta, display_value),
     gloss |-> gloss]

\* replacement_mapping.get(sn), with every field empty when there is none
NoXlitInfo ==
    [xlit |-> <<>>, color |-> <<>>, lemma |-> <<>>, pronounce |-> <<>>,
     description |-> <<>>, root |-> <<>>]
xlit_info_of(env, sn) == IF sn \in DOMAIN env.mapping THEN env.mapping[sn] ELSE NoXlitInfo

\* color (lines 345, 375)
color_of(env, sn) ==
    IF sn \in DOMAIN env.mapping THEN env.mapping[sn].color
    ELSE IF sn \in DOMAIN env.store THEN env.store[sn].color ELSE <<>>

\* lines 354-370, 384-397: suppress the occurrence or emit its element
render_display(text, sn, env, target, original, display_value) ==
    IF should_skip_english_highlight(display_value, sn \in DOMAIN env.mapping)
       /\ sn \in env.repeated
    THEN [text |-> Replace(text, target, original), raised |-> "",
          call |-> [sn |-> sn, outcome |-> "suppressed", original |-> original,
                    display |-> display_value,
                    has_transliteration |-> sn \in DOMAIN env.mapping, tag |-> <<>>,
                    html |-> <<>>]]
    ELSE emit_element(text, target,
            [sn |-> sn, outcome |-> "element", original |-> original,
             display |-> display_value,
             has_transliteration |-> sn \in DOMAIN env.mapping,
             tag |-> tag_name(env.uncommon[sn]), html |-> <<>>],
            build_span(sn, display_value, original, color_of(env, sn),
                       sn \in DOMAIN env.mapping,
                       meta_of(xlit_info_of(env, sn), lookup_get(env.lexicon, sn),
                               display_value, original),
                       env.uncommon[sn], env.repeated))

\* display_value (lines 344, 374)
display_value_of(env, sn, original) ==
    IF sn \in DOMAIN env.mapping THEN Escape(env.mapping[sn].xlit) ELSE Escape(original)

\* what is replaced (target) and the text it stands for (original): the
\* matched phrase (lines 342-343), or the single word (line 373)
render_target(text, sn, env, target, original) ==
    render_display(text, sn, env, target, original, display_value_of(env, sn, original))

render_phrase(text, sn, env, word, phrase_match) ==
    IF phrase_match.found
    THEN render_target(text, sn, env, phrase_match.matched_text,
                       Strip(BeforeBrace(phrase_match.matched_text)))
    ELSE render_target(text, sn, env, word \o Marker(sn), word)

\* strongs_entry.get("translations", [word]) (line 329)
translations_of(env, sn, word) ==
    IF sn \in DOMAIN env.store THEN env.store[sn].translations ELSE <<word>>

render_word(text, sn, env, match) ==
    IF ~match.found
    THEN [text |-> text, raised |-> "", call |-> NoCall(sn, "none")]
    ELSE render_phrase(text, sn, env, match.word,
            first_phrase_match(text, sorted_translations(translations_of(env, sn, match.word)), sn))

render_marker(text, sn, env) ==
    IF alt_search(text, sn)
    THEN \* line 322: alt_match has no group 1
         [text |-> text, raised |-> "IndexError", call |-> NoCall(sn, "alt")]
    ELSE render_word(text, sn, env, word_search(text, sn))

\* lines 398-401: the leftover markers are cut out and the line is built
finish_verse(verse) ==
    verse.verse \o <<" ">>
    \o ReSubEmpty(ReSubEmpty(ReSubEmpty(verse.text, "plain"), "paren"), "half")

NewLine == <<"\n">>

----------------------------------------------------------------------------
(* The inputs of the modelled calls.                                       *)

H1 == <<"H","1">>
H2 == <<"H","2">>
H3 == <<"H","3">>
H853 == <<"H","8","5","3">>

\* n copies of s
RECURSIVE Times(_, _)
Times(n, s) == IF n = 0 THEN <<>> ELSE s \o Times(n - 1, s)

\* the sequences of at most n elements of S, concatenated
RECURSIVE Concats(_, _)
Concats(S, n) ==
    IF n = 0 THEN {<<>>}
    ELSE LET shorter == Concats(S, n - 1)
         IN  shorter \cup {t \o p : t \in shorter, p \in S}

Verse(ch, v, text) == [book_name |-> "Gen", chapter |-> ch, verse |-> v, text |-> text]

\* every corpus ends with a verse of another chapter and one of another book
OtherVerses == <<Verse(2, 1, <<"f","a","r","{","H","3","}">>),
                 [book_name |-> "Exo", chapter |-> 1, verse |-> 1, text |-> <<"t","h","e","{","H","1","}">>]>>

\* words with and without markers, an apostrophe, a bare marker
Pieces == {<<"t","h","e","{","H","1","}">>, <<"g","i","v","e","{","H","1","}">>, <<"f","o","r">>, <<" ">>, <<"'">>, <<"{","H","2","}">>}
MaxPieces == 3

\* fragments of malformed markup
Fragments == {<<"{">>, <<"{","H","1","}">>, <<"H","1","}">>, <<"{","(","H","1",")","}">>, <<"{","H","1",")","}">>, <<"x">>}
MaxFragments == 3

\* largest number of markers of one id in the counting corpora, largest cap
MaxCount == 5
MaxCap == 2
DefaultCap == 10

IntCap(n) == [kind |-> "int", n |-> n]
\* home and navigate pass sound_slice, a dict, as the sixth positional
\* argument, which is max_repeated_highlights (routes.py lines 332-334, 400-402)
DictCap == [kind |-> "dict", n |-> 0]

Entry(xlit, lemma, pronounce, description) ==
    [xlit |-> xlit, lemma |-> lemma, pronounce |-> pronounce, description |-> description]
Override(translations, color) == [translations |-> translations, color |-> color]

NoLexicon == <<>>
Lexicon1 == (H1 :> Entry(<<"e","l">>, <<>>, <<>>, <<>>))
            @@ (H2 :> Entry(<<"E","l","o","h","i","m">>, <<"e","l","h">>, <<"e","l","-","o","-","h","e","e","m">>, <<"G","o","d">>))
Lexicon2 == (H2 :> Entry(<<"E","l","o","h","i","m">>, <<"e","l","h">>, <<"e","l","-","o","-","h","e","e","m">>, <<"G","o","d">>))

NoOverrides == <<>>
Overrides1 == (H1 :> Override(<<<<"g","i","v","e">>, <<"f","o","r"," ","g","i","v","e">>>>, <<>>))
Overrides2 == (H1 :> Override(<<<<"t","h","e">>>>, <<"#","f","f","f","f","f","f">>))
              @@ (H2 :> Override(<<<<"f","o","r">>>>, <<"#","1","0","2","0","3","0">>))
Overrides3 == (H1 :> Override(<<<<"t","h","e">>>>, <<>>))
              @@ (H2 :> Override(<<<<"f","o","r">>>>, <<"#","f","f","f">>))

Unit(sc, sv, ec, ev) ==
    [start_chapter |-> 0, start_verse_absolute |-> 0, end_chapter |-> 0,
     end_verse_absolute |-> 0,
     range_start |-> [chapter |-> sc, verse |-> sv],
     range_end |-> [chapter |-> ec, verse |-> ev]]

\* the second verse of the chapter: nothing, or two more markers of H1
SecondVerses == {<<>>, <<Verse(1, 2, <<"{","H","1","}","{","H","1","}">>)>>}

\* The rendering calls: lexicon, override store, active units, the second
\* verses and the largest number of pieces of the first verse.  The calls
\* that are about the colors of the overrides have shorter verses.
Configs == {
    [lexicon |-> Lexicon1, store |-> NoOverrides, units |-> <<Unit(1, 1, 2, 1)>>,
     seconds |-> SecondVerses, pieces |-> MaxPieces],
    [lexicon |-> Lexicon1, store |-> Overrides1, units |-> <<>>,
     seconds |-> {<<>>}, pieces |-> MaxPieces],
    [lexicon |-> Lexicon1, store |-> Overrides2, units |-> <<>>,
     seconds |-> {<<>>}, pieces |-> MaxPieces - 1],
    [lexicon |-> Lexicon2, store |-> Overrides3, units |-> <<>>,
     seconds |-> {<<>>}, pieces |-> MaxPieces - 1] }

Start(mode, store, lexicon, kjv, cap, units) ==
    /\ pc = "start"
    /\ call_mode = mode
    /\ book = "Gen"
    /\ chapter = 1
    /\ strongs_dict_path = store
    /\ strongs_path = lexicon
    /\ kjv_path = kjv
    /\ max_repeated_highlights = cap
    /\ active_units = units
    /\ _global_strongs_counts = NoneOpt
    /\ _verses_by_book = NoneOpt
    /\ chapter_data = <<>>
    /\ replacement_mapping = <<>>
    /\ repeated_strongs = {}
    /\ uncommon_lookup = <<>>
    /\ vi = 0
    /\ si = 0
    /\ result = <<>>
    /\ returned = NoneOpt
    /\ raised = ""
    /\ calls = <<>>
    /\ context = [global_count |-> 0, unit_peak |-> 0]
    /\ classified = NoneOpt
    /\ NoThreads
    /\ SoundIdle

\* a verse of words and markers, under each configuration
InitRender ==
    \E c \in Configs : \E text \in Concats(Pieces, c.pieces), second \in c.seconds :
        Start("direct", c.store, c.lexicon,
              <<Verse(1, 1, text)>> \o second \o OtherVerses, IntCap(DefaultCap), c.units)

\* a verse of malformed markup
InitMalformed ==
    \E text \in Concats(Fragments, MaxFragments) :
        Start("direct", NoOverrides, Lexicon1,
              <<Verse(1, 1, text)>> \o OtherVerses, IntCap(DefaultCap), <<>>)

\* a chapter of bare markers, under each cap
InitCount ==
    \E n1 \in 0..MaxCount, n2 \in 0..MaxCount, n3 \in {0, min_repeat_count},
       ns \in {0, min_repeat_count}, cap \in (0..MaxCap) \cup {DefaultCap} :
        Start("direct", NoOverrides, NoLexicon,
              <<Verse(1, 1, Times(n1, Marker(H1)) \o Times(ns, Marker(H853))),
                Verse(1, 2, Times(n2, Marker(H2)) \o Times(n3, Marker(H3)))>> \o OtherVerses,
              IntCap(cap), <<>>)

\* the call as home and navigate make it
InitRoute ==
    \E text \in Concats(Pieces, 1), c \in Configs :
        Start("route", c.store, c.lexicon,
              <<Verse(1, 1, text)>> \o OtherVerses, DictCap, c.units)

\* largest number of markers of H1 in the rest of the book
MaxElsewhere == 51

\* a verse with a word of H1 and a word of H2; the next chapter holds more
\* markers of H1 and is, or is not, an active unit
InitRarity ==
    \E n \in 0..MaxElsewhere, units \in {<<>>, <<Unit(2, 1, 2, 1)>>} :
        Start("direct", NoOverrides, Lexicon1,
              <<Verse(1, 1, <<"g","i","v","e","{","H","1","}"," ","f","o","r","{","H","2","}">>), Verse(2, 1, Times(n, Marker(H1)))>>,
              IntCap(DefaultCap), units)

\* largest verse number of the chapters whose records come in any order
MaxVerses == 3

\* the sequences without repetition of elements of S
RECURSIVE Arrangements(_)
Arrangements(S) ==
    {<<>>} \cup UNION {{<<x>> \o t : t \in Arrangements(S \ {x})} : x \in S}

\* a chapter of verses 1..MaxVerses, some of them missing, their records in
\* any order, with a record of another chapter among them
InitOrder ==
    \E order \in Arrangements(1..MaxVerses), text \in {<<"f","o","r">>, <<"g","i","v","e","{","H","1","}">>} :
        Start("direct", NoOverrides, Lexicon1,
              [k \in 1..Len(order) |->
                  Verse(1, order[k], IF order[k] = 1 THEN text ELSE <<"t","h","e","{","H","1","}">>)]
              \o OtherVerses
              \o (IF order = <<>> THEN <<>> ELSE <<Verse(1, MaxVerses + 1, <<"f","a","r","{","H","3","}">>)>>),
              IntCap(DefaultCap), <<>>)

Init == InitRender \/ InitMalformed \/ InitCount \/ InitRoute \/ InitRarity \/ InitOrder

----------------------------------------------------------------------------
(* The call of transliterate_chapter, step by step.                        *)

\* lines 137-244: everything before the rendering loop
Setup ==
    /\ pc = "start"
    /\ UNCHANGED <<threads, sound_vars>>
    /\ chapter_data' = chapter_data_of(kjv_path, book, chapter)
    /\ replacement_mapping' = replacement_mapping_of(strongs_dict_path, strongs_path)
    /\ IF max_repeated_highlights.kind # "int"
       THEN \* line 214: a slice bound that is no integer
            /\ pc' = "raised"
            /\ raised' = "TypeError"
            /\ UNCHANGED <<repeated_strongs, uncommon_lookup, _global_strongs_counts,
                           _verses_by_book, vi, si>>
       ELSE LET data == chapter_data'
                chapter_strongs_set == Range(ChapterMarkers(data))
                global_counts ==
                    IF _global_strongs_counts = NoneOpt
                    THEN count_strongs_in_verses(kjv_path, {})
                    ELSE TheValue(_global_strongs_counts)
                uses_index == active_units # <<>> /\ chapter_strongs_set # {}
                index == IF _verses_by_book = NoneOpt THEN verses_by_book_of(kjv_path)
                         ELSE TheValue(_verses_by_book)
                unit_max_counts ==
                    IF uses_index
                    THEN unit_max_counts_of(index, book, active_units, chapter_strongs_set)
                    ELSE <<>>
            IN  /\ repeated_strongs' =
                       repeated_strongs_of(strongs_counter_of(data), max_repeated_highlights.n)
                /\ _global_strongs_counts' = Some(global_counts)
                /\ _verses_by_book' = IF uses_index THEN Some(index) ELSE _verses_by_book
                /\ uncommon_lookup' =
                       uncommon_lookup_of(chapter_strongs_set, global_counts, unit_max_counts)
                /\ pc' = "loop"
                /\ vi' = 1
                /\ si' = 1
                /\ UNCHANGED raised
    /\ UNCHANGED <<call_mode, book, chapter, strongs_dict_path, strongs_path, kjv_path,
                   max_repeated_highlights, active_units, result, returned, calls,
                   context, classified>>

Env == [store |-> strongs_dict_path, lexicon |-> strongs_path,
        mapping |-> replacement_mapping, repeated |-> repeated_strongs,
        uncommon |-> uncommon_lookup]

\* lines 318-397: one iteration of `for strongs_number in verse['strongs']`
RenderMarker ==
    /\ pc = "loop"
    /\ UNCHANGED <<threads, sound_vars>>
    /\ vi <= Len(chapter_data)
    /\ si <= Len(chapter_data[vi].strongs)
    /\ LET verse == chapter_data[vi]
           r == render_marker(verse.text, verse.strongs[si], Env)
       IN  /\ calls' = Append(calls, r.call @@ [verse |-> vi])
           /\ IF r.raised # ""
              THEN /\ pc' = "raised"
                   /\ raised' = r.raised
                   /\ UNCHANGED <<chapter_data, si, kjv_path>>
              ELSE /\ chapter_data' = [chapter_data EXCEPT ![vi].text = r.text]
                   /\ kjv_path' = corpus_after_write(kjv_path, book, chapter, vi, r.text)
                   /\ si' = si + 1
                   /\ UNCHANGED <<pc, raised>>
    /\ UNCHANGED <<call_mode, book, chapter, strongs_dict_path, strongs_path,
                   max_repeated_highlights, active_units, _global_strongs_counts,
                   _verses_by_book, replacement_mapping, repeated_strongs, uncommon_lookup,
                   vi, result, returned, context, classified>>

\* lines 398-401: the verse's leftover markers are cut out, its line is appended
FinishVerse ==
    /\ pc = "loop"
    /\ UNCHANGED <<threads, sound_vars>>
    /\ vi <= Len(chapter_data)
    /\ si > Len(chapter_data[vi].strongs)
    /\ LET line == finish_verse(chapter_data[vi])
           text == SubSeq(line, Len(chapter_data[vi].verse) + 2, Len(line))
       IN  /\ result' = Append(result, line)
           /\ chapter_data' = [chapter_data EXCEPT ![vi].text = text]
           /\ kjv_path' = corpus_after_write(kjv_path, book, chapter, vi, text)
    /\ vi' = vi + 1
    /\ si' = 1
    /\ UNCHANGED <<pc, call_mode, book, chapter, strongs_dict_path, strongs_path,
                   max_repeated_highlights, active_units, _global_strongs_counts,
                   _verses_by_book, replacement_mapping, repeated_strongs, uncommon_lookup,
                   returned, raised, calls, context, classified>>

\* line 402
Return ==
    /\ pc = "loop"
    /\ UNCHANGED <<threads, sound_vars>>
    /\ vi > Len(chapter_data)
    /\ returned' = Some(Join(result, NewLine))
    /\ pc' = "done"
    /\ UNCHANGED <<call_mode, book, chapter, strongs_dict_path, strongs_path, kjv_path,
                   max_repeated_highlights, active_units, _global_strongs_counts,
                   _verses_by_book, chapter_data, replacement_mapping, repeated_strongs,
                   uncommon_lookup, vi, si, result, raised, calls, context, classified>>

Next == Setup \/ RenderMarker \/ FinishVerse \/ Return

Spec == Init /\ [][Next]_vars

----------------------------------------------------------------------------
(* classify_uncommon as a function of (global count, unit peak).           *)

MaxGlobalCount == 52
MaxUnitPeak == 4

InitClassify ==
    /\ pc = "classify_start"
    /\ context \in [global_count : 0..MaxGlobalCount, unit_peak : 0..MaxUnitPeak]
    /\ classified = NoneOpt
    /\ call_mode = "direct"
    /\ book = "Gen"
    /\ chapter = 1
    /\ strongs_dict_path = NoOverrides
    /\ strongs_path = NoLexicon
    /\ kjv_path = <<>>
    /\ max_repeated_highlights = IntCap(DefaultCap)
    /\ active_units = <<>>
    /\ _global_strongs_counts = NoneOpt
    /\ _verses_by_book = NoneOpt
    /\ chapter_data = <<>>
    /\ replacement_mapping = <<>>
    /\ repeated_strongs = {}
    /\ uncommon_lookup = <<>>
    /\ vi = 0
    /\ si = 0
    /\ result = <<>>
    /\ returned = NoneOpt
    /\ raised = ""
    /\ calls = <<>>
    /\ NoThreads
    /\ SoundIdle

Classify ==
    /\ pc = "classify_start"
    /\ UNCHANGED <<threads, sound_vars>>
    /\ classified' = Some(classify_uncommon(context))
    /\ pc' = "classify_done"
    /\ UNCHANGED <<call_mode, book, chapter, strongs_dict_path, strongs_path, kjv_path,
                   max_repeated_highlights, active_units, _global_strongs_counts,
                   _verses_by_book, chapter_data, replacement_mapping, repeated_strongs,
                   uncommon_lookup, vi, si, result, returned, raised, calls, context>>

SpecClassify == InitClassify /\ [][Classify]_vars

----------------------------------------------------------------------------
(* transliterate_chapter as a function of its arguments (an integer cap,   *)
(* the first call of a process): the composition of the steps above.       *)

\* the marker loop of one verse from its k-th marker on: [text, raised]
RECURSIVE render_markers(_, _, _, _)
render_markers(text, strongs, k, env) ==
    IF k > Len(strongs) THEN [text |-> text, raised |-> ""]
    ELSE LET r == render_marker(text, strongs[k], env)
         IN  IF r.raised # "" THEN [text |-> r.text, raised |-> r.raised]
             ELSE render_markers(r.text, strongs, k + 1, env)

\* the verse loop from the k-th verse on: [raised, lines]
RECURSIVE render_verses(_, _, _)
render_verses(data, k, env) ==
    IF k > Len(data) THEN [raised |-> "", lines |-> <<>>]
    ELSE LET v == render_markers(data[k].text, data[k].strongs, 1, env)
         IN  IF v.raised # "" THEN [raised |-> v.raised, lines |-> <<>>]
             ELSE LET rest == render_verses(data, k + 1, env)
                  IN  IF rest.raised # "" THEN rest
                      ELSE [raised |-> "",
                            lines |-> <<finish_verse([data[k] EXCEPT !.text = v.text])>>
                                      \o rest.lines]

\* lines 137-244
env_of(kjv, b, ch, store, lexicon, cap, units) ==
    LET data == chapter_data_of(kjv, b, ch)
        ids == Range(ChapterMarkers(data))
    IN  [store |-> store, lexicon |-> lexicon,
         mapping |-> replacement_mapping_of(store, lexicon),
         repeated |-> repeated_strongs_of(strongs_counter_of(data), cap),
         uncommon |-> uncommon_lookup_of(ids, count_strongs_in_verses(kjv, {}),
                         IF units # <<>> /\ ids # {}
                         THEN unit_max_counts_of(verses_by_book_of(kjv), b, units, ids)
                         ELSE <<>>)]

\* [raised, value]: the exception that leaves the call, or the string returned
transliterate_chapter(kjv, b, ch, store, lexicon, cap, units) ==
    LET r == render_verses(chapter_data_of(kjv, b, ch), 1,
                           env_of(kjv, b, ch, store, lexicon, cap, units))
    IN  [raised |-> r.raised,
         value |-> IF r.raised # "" THEN <<>> ELSE Join(r.lines, NewLine)]

----------------------------------------------------------------------------
(* Properties.                                                             *)

Finished == pc \in {"done", "raised"}
CallRange == 1..Len(calls)
Contains(s, pat) == Find(s, pat, 1) # 0
HasMarker(s) == \E i \in 1..Len(s) : s[i] = "{" /\ MarkerLenAt(s, i) > 0

\* the raw text of the verses of the rendered chapter, and the number of
\* markers of an id in them
ChapterVerses == {k \in 1..Len(kjv_path) :
                     kjv_path[k].book_name = book /\ kjv_path[k].chapter = chapter}
RECURSIVE SumOver(_, _)
SumOver(f, S) == IF S = {} THEN 0
                 ELSE LET x == CHOOSE y \in S : TRUE IN f[x] + SumOver(f, S \ {x})
ChapterCount(sn) ==
    SumOver([k \in ChapterVerses |->
                Cardinality({i \in 1..Len(kjv_path[k].text) :
                    StartsWithAt(kjv_path[k].text, i, Marker(sn))})],
            ChapterVerses)
ChapterIds == {sn \in Ids : ChapterCount(sn) > 0}

(* C1: no line of the string returned by transliterate_chapter contains a  *)
(* substring '{' + ('H' or 'G') + digits + '}'.  The marker patterns hold  *)
(* no line break, so this is the same for the whole string.                *)
C1_NoResidualMarker ==
    pc = "done" => ~HasMarker(TheValue(returned))

(* C2: the rendering path never raises: every call, made directly or the   *)
(* way the home and navigate routes make it, returns a string.             *)
C2_NeverRaises ==
    pc # "raised" /\ raised = ""

Doublets(text) ==
    {j \in 1..Len(text) :
        /\ text[j] = "{"
        /\ MarkerLenAt(text, j) > 0
        /\ \E i \in 2..(j - 1) :
            /\ text[i] = "{"
            /\ MarkerLenAt(text, i) > 0
            /\ text[i - 1] \in WordChars
            /\ \/ i + MarkerLenAt(text, i) = j
               \/ i + MarkerLenAt(text, i) = j - 1 /\ text[j - 1] = "'"}
WithoutMarkerAt(text, j) ==
    SubSeq(text, 1, j - 1) \o SubSeq(text, j + MarkerLenAt(text, j), Len(text))

(* C5: a doublet marker is dropped and nothing else changes: the call      *)
(* ends as it ends on the same corpus with the doublet marker left out.    *)
C5_DoubletDropped ==
    (Finished /\ call_mode = "direct") =>
        \A k \in ChapterVerses : \A j \in Doublets(kjv_path[k].text) :
            LET without == [kjv_path EXCEPT ![k].text = WithoutMarkerAt(@, j)]
                expected == transliterate_chapter(without, book, chapter, strongs_dict_path,
                                strongs_path, max_repeated_highlights.n, active_units)
            IN  /\ raised = expected.raised
                /\ pc = "done" => TheValue(returned) = expected.value

(* C6: the repeat set holds no id of the stop-list, whatever its count in  *)
(* the chapter, and has at most N members, N the cap.                      *)
C6_RepeatSetExcludesStopListAndIsCapped ==
    (pc \in {"loop", "done"} /\ max_repeated_highlights.kind = "int") =>
        /\ repeated_strongs \cap stop_strongs = {}
        /\ Cardinality(repeated_strongs) <= max_repeated_highlights.n

\* a stop-list id occurs 3 times, more ids qualify than the cap admits, and
\* the repeat set is filled to the cap
C6_Witness ==
    /\ pc = "done"
    /\ ChapterCount(H853) >= 3
    /\ max_repeated_highlights.n >= 1
    /\ Cardinality({sn \in ChapterIds \ stop_strongs : ChapterCount(sn) >= 3})
           > max_repeated_highlights.n
    /\ Cardinality(repeated_strongs) = max_repeated_highlights.n

(* C7 as claimed: an id outside the stop-list that occurs 5 times in the   *)
(* chapter is in the repeat set; an id that occurs twice is not.           *)
C7_FiveInTwoOut ==
    (pc \in {"loop", "done"} /\ max_repeated_highlights.kind = "int") =>
        \A sn \in ChapterIds :
            /\ (ChapterCount(sn) = 5 /\ sn \notin stop_strongs) => sn \in repeated_strongs
            /\ ChapterCount(sn) = 2 => sn \notin repeated_strongs

\* the ids that come before sn in the order of the repeat candidates
RankedBefore(sn) ==
    {o \in ChapterIds \ (stop_strongs \cup {sn}) :
        /\ ChapterCount(o) >= 3
        /\ \/ ChapterCount(o) > ChapterCount(sn)
           \/ ChapterCount(o) = ChapterCount(sn) /\ StrLess(o, sn)}

(* C7 as amended: an id outside the stop-list that occurs 5 times in the   *)
(* chapter is in the repeat set when fewer than N other candidates come    *)
(* before it (a higher count, or the same count and a smaller id), N the   *)
(* cap; an id that occurs twice is never in the repeat set.                *)
C7_FiveInUnlessCappedTwoOut ==
    (pc \in {"loop", "done"} /\ max_repeated_highlights.kind = "int") =>
        \A sn \in ChapterIds :
            /\ (/\ ChapterCount(sn) = 5
                /\ sn \notin stop_strongs
                /\ Cardinality(RankedBefore(sn)) < max_repeated_highlights.n)
               => sn \in repeated_strongs
            /\ ChapterCount(sn) = 2 => sn \notin repeated_strongs

\* under the default cap one id occurs 5 times and is in the repeat set,
\* another occurs twice and is not
C7_Witness ==
    /\ pc = "done"
    /\ max_repeated_highlights = IntCap(DefaultCap)
    /\ ChapterCount(H1) = 5 /\ H1 \in repeated_strongs
    /\ ChapterCount(H2) = 2 /\ H2 \notin repeated_strongs

(* C8: classify_uncommon returns rule 'global' exactly when the global     *)
(* count is <= 10, rule 'unit' exactly when the global count is in 11..50  *)
(* and the unit peak is >= 3, and is_uncommon = False with rule None       *)
(* otherwise; the rule returned is the first of the list that matches.     *)
C8_ClassificationRule ==
    pc = "classify_done" =>
        LET r == TheValue(classified)
            g == context.global_count
            p == context.unit_peak
            matching == {k \in 1..Len(UNCOMMON_RULES) : RuleHolds(UNCOMMON_RULES[k], context)}
        IN  /\ (r.rule = "global") = (g <= 10)
            /\ (r.rule = "unit") = (g >= 11 /\ g <= 50 /\ p >= 3)
            /\ (r.rule = None) = ~(g <= 10 \/ (g <= 50 /\ p >= 3))
            /\ r.is_uncommon = (r.rule # None)
            /\ r.global_count = g /\ r.unit_peak = p
            /\ matching # {} => r.rule = UNCOMMON_RULES[Min(matching)]
            /\ UNCOMMON_RULES = <<"global", "unit">>

\* both rules match and the first one decided
C8_Witness ==
    /\ pc = "classify_done"
    /\ context = [global_count |-> 10, unit_peak |-> 3]
    /\ TheValue(classified).rule = "global"

\* common < unit-clustered < globally rare
Rarity(r) == IF r.rule = "global" THEN 2 ELSE IF r.rule = "unit" THEN 1 ELSE 0

(* C9: for a fixed unit peak the classification is monotonic in the global *)
(* count: the classification of (g1, peak) is at least as rare as that of  *)
(* (g2, peak) whenever g1 <= g2.                                           *)
C9_MonotonicInGlobalCount ==
    pc = "classify_done" =>
        \A g1 \in 0..context.global_count :
            Rarity(classify_uncommon([context EXCEPT !.global_count = g1]))
                >= Rarity(TheValue(classified))

\* a count that is classified unit-clustered, between rarer and commoner ones
C9_Witness ==
    /\ pc = "classify_done"
    /\ context = [global_count |-> 30, unit_peak |-> 3]
    /\ Rarity(TheValue(classified)) = 1
    /\ Rarity(classify_uncommon([context EXCEPT !.global_count = 10])) = 2
    /\ Rarity(classify_uncommon([context EXCEPT !.global_count = 51])) = 0

\* the display text as line 250 normalizes it
Normalized(display) == LowerStr(SelectSeq(display, IsLetterOrApostrophe))
ShortOrStopword(display) ==
    Len(Normalized(display)) < 4 \/ Normalized(display) \in english_stopwords
Handled(k) == calls[k].outcome \in {"suppressed", "element", "raised"}

(* C10 as claimed: an occurrence is suppressed exactly when its id is in   *)
(* the repeat set and its display text, stripped, is shorter than 4        *)
(* characters or an English stopword, be it a romanization or not.         *)
C10_SuppressedIffRepeatedAndTrivial ==
    \A k \in CallRange :
        Handled(k) =>
            ((calls[k].outcome = "suppressed")
                = (calls[k].sn \in repeated_strongs /\ ShortOrStopword(calls[k].display)))

(* C10 as amended: an occurrence is suppressed exactly when its id is in   *)
(* the repeat set, its display text is the English text (the id is not     *)
(* romanized), and that text, stripped, is shorter than 4 characters or an *)
(* English stopword; a romanized occurrence is never suppressed.  A        *)
(* suppressed occurrence is shown as the English text itself.              *)
C10_SuppressedIffRepeatedEnglishAndTrivial ==
    \A k \in CallRange :
        Handled(k) =>
            /\ (calls[k].outcome = "suppressed")
                   = (/\ calls[k].sn \in repeated_strongs
                      /\ ~calls[k].has_transliteration
                      /\ ShortOrStopword(calls[k].display))
            /\ calls[k].outcome = "suppressed" =>
                   calls[k].display = Escape(calls[k].original) /\ calls[k].html = <<>>

\* of two English occurrences of a repeated id the stopword is suppressed
\* and the longer word is not
C10_Witness ==
    /\ \E k \in CallRange :
        /\ calls[k].outcome = "suppressed"
        /\ calls[k].sn \in repeated_strongs
        /\ calls[k].display = <<"t","h","e">>
    /\ \E k \in CallRange :
        /\ calls[k].outcome = "element"
        /\ calls[k].sn \in repeated_strongs
        /\ ~calls[k].has_transliteration
        /\ calls[k].display = <<"g","i","v","e">>

\* the step of the marker loop that has just been taken, and what it did
LoopStep == pc = "loop" /\ Len(calls') = Len(calls) + 1
LastCall == calls'[Len(calls')]
MarkerCount(text, sn) == Cardinality(Occurrences(text, Marker(sn)))

\* candidate c stands at a word boundary, in any case, before a marker of sn
\* (whitespace may separate them)
CandidateOccurs(text, c, sn) ==
    \E i \in 1..Len(text) :
        /\ Boundary(text, i)
        /\ StartsWithAtNoCase(text, i, LowerStr(c))
        /\ \E j \in Occurrences(text, Marker(sn)) :
               i + Len(c) \in SpaceRunStart(text, j)..j

\* the places where the text t stands as a word or phrase of its own before
\* a marker of sn
ProperPlaces(text, t, sn) ==
    {i \in 1..Len(text) :
        /\ Boundary(text, i)
        /\ StartsWithAt(text, i, t)
        /\ \E j \in Occurrences(text, Marker(sn)) :
               i + Len(t) \in SpaceRunStart(text, j)..j}

(* C11: in every iteration that replaces text, the text replaced is the    *)
(* candidate with the most words among the override's candidates that      *)
(* stand at a word boundary before a marker of the id, or the single word  *)
(* before the marker when no candidate does; and nothing but such a word   *)
(* or phrase before a marker is replaced: the iteration takes no more      *)
(* markers out of the verse than there are places where the replaced text  *)
(* stands as a word or phrase of its own before the marker.                *)
C11_Step ==
    (LoopStep /\ LastCall.outcome \in {"element", "suppressed"}) =>
        LET text == chapter_data[vi].text
            sn == LastCall.sn
            candidates == IF sn \in DOMAIN strongs_dict_path
                          THEN Range(strongs_dict_path[sn].translations) ELSE {}
            matching == {c \in candidates : CandidateOccurs(text, c, sn)}
        IN  /\ matching # {} =>
                   \E c \in matching :
                       /\ LowerStr(LastCall.original) = LowerStr(c)
                       /\ \A d \in matching : WordCount(d) <= WordCount(c)
            /\ matching = {} => LastCall.original = word_search(text, sn).word
            /\ MarkerCount(text, sn) - MarkerCount(chapter_data'[vi].text, sn)
                   <= Cardinality(ProperPlaces(text, LastCall.original, sn))
C11_LongestCandidateReplaced == [][C11_Step]_vars

\* the number of markers of an id in the whole corpus, and the largest
\* number of them in the verses of one active unit (0 without units)
GlobalCount(sn) ==
    SumOver([k \in 1..Len(kjv_path) |-> MarkerCount(kjv_path[k].text, sn)],
            1..Len(kjv_path))
InUnit(k, u) ==
    LET at == <<kjv_path[k].chapter, kjv_path[k].verse>>
        Before(a, b) == a[1] < b[1] \/ (a[1] = b[1] /\ a[2] < b[2])
    IN  /\ kjv_path[k].book_name = book
        /\ ~Before(at, <<active_units[u].range_start.chapter, active_units[u].range_start.verse>>)
        /\ ~Before(<<active_units[u].range_end.chapter, active_units[u].range_end.verse>>, at)
UnitCount(sn, u) ==
    LET members == {k \in 1..Len(kjv_path) : InUnit(k, u)}
    IN  SumOver([k \in members |-> MarkerCount(kjv_path[k].text, sn)], members)
UnitPeak(sn) == Max({0} \cup {UnitCount(sn, u) : u \in 1..Len(active_units)})
RareOrClustered(sn) ==
    GlobalCount(sn) <= 10 \/ (GlobalCount(sn) <= 50 /\ UnitPeak(sn) >= 3)

(* C12: an emitted element is a button, with type="button", exactly when   *)
(* its id is globally rare or unit-clustered, and a span without that      *)
(* attribute otherwise.  (Every element is the latest one in the state     *)
(* that follows its emission.)                                             *)
C12_ButtonIffRareOrClustered ==
    \A k \in CallRange \cap {Len(calls)} :
        calls[k].outcome = "element" =>
            LET open == <<"<">> \o calls[k].tag \o <<" ","c","l","a","s","s","=">>
                close == <<"<","/">> \o calls[k].tag \o <<">">>
                h == calls[k].html
            IN  /\ calls[k].tag = IF RareOrClustered(calls[k].sn) THEN <<"b","u","t","t","o","n">> ELSE <<"s","p","a","n">>
                /\ SubSeq(h, 1, Len(open)) = open
                /\ SubSeq(h, Len(h) - Len(close) + 1, Len(h)) = close
                /\ Contains(h, <<" ","t","y","p","e","=","\"","b","u","t","t","o","n","\"",">">>) = (calls[k].tag = <<"b","u","t","t","o","n">>)

\* one verse holds a span (an id with 51 markers in the corpus) and a button
C12_Witness ==
    /\ pc = "done"
    /\ \E k \in CallRange :
        /\ calls[k].outcome = "element" /\ calls[k].sn = H1
        /\ calls[k].tag = <<"s","p","a","n">> /\ GlobalCount(H1) = 51
    /\ \E k \in CallRange :
        /\ calls[k].outcome = "element" /\ calls[k].sn = H2
        /\ calls[k].tag = <<"b","u","t","t","o","n">>

\* twice the HLS lightness of the color #rrggbb, on the scale 0..510: the
\* largest channel plus the smallest
LightnessSum(color) ==
    LET channels == {ParseHex(SubSeq(color, 2, 3)), ParseHex(SubSeq(color, 4, 5)),
                     ParseHex(SubSeq(color, 6, 7))}
    IN  Max(channels) + Min(channels)

(* C13: an element for an entry that carries a color #rrggbb has that      *)
(* color as its background, with dark text (#000000) exactly when the HLS  *)
(* lightness of (rr, gg, bb) is above 0.65, i.e. when the largest plus the *)
(* smallest channel is above 0.65 * 510 = 331.5, and light text (#ffffff)  *)
(* otherwise; white gets dark text.                                        *)
C13_ContrastByLightness ==
    \A k \in CallRange :
        (/\ calls[k].outcome = "element"
         /\ calls[k].sn \in DOMAIN strongs_dict_path
         /\ Len(strongs_dict_path[calls[k].sn].color) = 7) =>
            LET color == strongs_dict_path[calls[k].sn].color
            IN  Contains(calls[k].html,
                    <<"b","a","c","k","g","r","o","u","n","d","-","c","o","l","o","r",":"," ">> \o color \o <<";"," ","c","o","l","o","r",":"," ">>
                    \o (IF LightnessSum(color) >= 332 THEN <<"#","0","0","0","0","0","0">> ELSE <<"#","f","f","f","f","f","f">>)
                    \o <<";">>)

\* the lines of a string: its parts between line breaks (none for "")
RECURSIVE SplitLines(_)
SplitLines(s) ==
    IF \A i \in 1..Len(s) : s[i] # "\n" THEN <<s>>
    ELSE LET i == Min({x \in 1..Len(s) : s[x] = "\n"})
         IN  <<SubSeq(s, 1, i - 1)>> \o SplitLines(SubSeq(s, i + 1, Len(s)))
Lines(s) == IF s = <<>> THEN <<>> ELSE SplitLines(s)

\* the records of the requested chapter, in corpus order and by verse number
ChapterRecords ==
    LET InChapter(verse) == verse.book_name = book /\ verse.chapter = chapter
    IN  SelectSeq(kjv_path, InChapter)
RECURSIVE ByVerse(_)
ByVerse(records) ==
    IF records = <<>> THEN <<>>
    ELSE LET least == Min({records[k].verse : k \in 1..Len(records)})
             k == Min({x \in 1..Len(records) : records[x].verse = least})
         IN  <<records[k]>> \o ByVerse(RemoveAt(records, k))

\* the annotated text of the verse with number v, once the verse is rendered
AnnotatedText(v) ==
    LET k == CHOOSE x \in 1..Len(chapter_data) : chapter_data[x].verse = Str(v)
    IN  chapter_data[k].text

\* the string returned is made of one line number + space + annotated text
\* per record of `records`, in their order
LinesFollow(records) ==
    LET lines == Lines(TheValue(returned))
    IN  /\ Len(lines) = Len(records)
        /\ \A i \in 1..Len(records) :
               lines[i] = Str(records[i].verse) \o <<" ">> \o AnnotatedText(records[i].verse)

\* no two records of the chapter have the same verse number
DistinctVerses ==
    \A i, j \in 1..Len(ChapterRecords) :
        ChapterRecords[i].verse = ChapterRecords[j].verse => i = j

(* C14 as claimed: the result has one line per verse of the chapter, the   *)
(* verse number, a space and the annotated text, in ascending verse order  *)
(* whatever the order of the records in the corpus.                        *)
C14_LinesInVerseOrder ==
    (pc = "done" /\ DistinctVerses) => LinesFollow(ByVerse(ChapterRecords))

(* C14 as amended: the result has one line per verse record of the         *)
(* chapter, the verse number, a space and the annotated text, in the order *)
(* of the records in the corpus, which is ascending verse order when the   *)
(* corpus lists the chapter's verses in ascending order.                   *)
C14_LinesInCorpusOrder ==
    (pc = "done" /\ DistinctVerses) =>
        /\ LinesFollow(ChapterRecords)
        /\ ChapterRecords = ByVerse(ChapterRecords) => LinesFollow(ByVerse(ChapterRecords))

\* a chapter whose records are out of verse order was rendered, one of its
\* lines holding an element
C14_Witness ==
    /\ pc = "done"
    /\ Len(ChapterRecords) = MaxVerses + 1
    /\ ChapterRecords # ByVerse(ChapterRecords)
    /\ \E k \in CallRange : calls[k].outcome = "element"


(***************************************************************************)
(* build_sound_annotations.py: the values read from the JSON inputs.       *)
(* A value is null (or the value of a missing key), a number, a string, a  *)
(* list or an object; an object is a function from its keys.               *)
(***************************************************************************)
PyNone == [t |-> "none"]
JInt(n) == [t |-> "int", i |-> n]
JStr(s) == [t |-> "str", s |-> s]
JList(l) == [t |-> "list", l |-> l]
JDict(d) == [t |-> "dict", d |-> d]

\* bool(v)
Truthy(v) ==
    CASE v.t = "none" -> FALSE
      [] v.t = "int" -> v.i # 0
      [] v.t = "str" -> v.s # <<>>
      [] v.t = "list" -> v.l # <<>>
      [] v.t = "dict" -> DOMAIN v.d # {}
\* a or b
OrElse(a, b) == IF Truthy(a) THEN a ELSE b
\* mapping.get(key)
DictGet(mapping, key) == IF key \in DOMAIN mapping THEN mapping[key] ELSE PyNone
\* mapping.get(key, default) and mapping[key] = value, for a mapping built by the script
Get(mapping, key, default) == IF key \in DOMAIN mapping THEN mapping[key] ELSE default
Put(mapping, key, value) == [x \in DOMAIN mapping \cup {key} |-> IF x = key THEN value ELSE mapping[x]]

\* int(v): the integer, or nothing when int() raises TypeError or ValueError
\* (strings are runs of decimal digits or have another character in them)
RECURSIVE DecValue(_)
DecValue(s) ==
    IF s = <<>> THEN 0
    ELSE 10 * DecValue(SubSeq(s, 1, Len(s) - 1)) + (IndexIn(DigitSeq, s[Len(s)]) - 1)
PyInt(v) ==
    CASE v.t = "int" -> Some(v.i)
      [] v.t = "str" -> IF v.s # <<>> /\ \A k \in 1..Len(v.s) : v.s[k] \in Digit
                        THEN Some(DecValue(v.s)) ELSE NoneOpt
      [] v.t \in {"none", "list", "dict"} -> NoneOpt
\* str(v) of a string or of a number
PyStr(v) ==
    CASE v.t = "str" -> v.s
      [] v.t = "int" -> Str(v.i)

\* normalize_strongs_number (lines 46-65); a token's reference is null, a
\* number, a string or a list.  _extract is the first match of [GH]\d+ in
\* candidate.upper(), or None
normalize_strongs_number(value) ==
    LET _extract(candidate) ==
            LET text == UpperStr(candidate)
                starts == {i \in 1..Len(text) : IdEndAt(text, i) # 0}
            IN  IF starts = {} THEN NoneOpt
                ELSE Some(SubSeq(text, Min(starts), IdEndAt(text, Min(starts)) - 1))
    IN  CASE value.t = "str" -> _extract(value.s)
          [] value.t = "list" ->
                LET hits == {k \in 1..Len(value.l) :
                                value.l[k].t = "str" /\ _extract(value.l[k].s) # NoneOpt}
                IN  IF hits = {} THEN NoneOpt ELSE _extract(value.l[Min(hits)].s)
          [] value.t \in {"none", "int"} -> NoneOpt

\* build_index_by_book_chapter_verse (lines 111-133): from_entry is the loop
\* from entry k on, with the index built so far; the result is the index or
\* the exception
build_index_by_book_chapter_verse(entries) ==
    LET RECURSIVE from_entry(_, _)
        from_entry(k, index) ==
            IF k > Len(entries) THEN [raised |-> "", index |-> index]
            ELSE LET entry == entries[k]
                     book_raw == OrElse(DictGet(entry, "book_name"), DictGet(entry, "book"))
                     chapter_int == PyInt(DictGet(entry, "chapter"))
                     verse_int == PyInt(DictGet(entry, "verse"))
                     tokens == OrElse(OrElse(OrElse(DictGet(entry, "tokens"), DictGet(entry, "tokenized")),
                                             DictGet(entry, "words")), JList(<<>>))
                 IN  IF \/ book_raw.t = "none"
                        \/ chapter_int = NoneOpt
                        \/ verse_int = NoneOpt
                        \/ tokens.t # "list"
                     THEN [raised |-> "ValueError", index |-> <<>>]
                     ELSE LET book_key == PyStr(book_raw)
                              chapters == Get(index, book_key, <<>>)
                              verses == Get(chapters, TheValue(chapter_int), <<>>)
                          IN  from_entry(k + 1,
                                  Put(index, book_key,
                                      Put(chapters, TheValue(chapter_int),
                                          Put(verses, TheValue(verse_int), tokens.l))))
    IN  from_entry(1, <<>>)

\* VerseStats (lines 22-27)
VerseStats(roots, initials) == [roots |-> roots, initials |-> initials]

\* the statistics with the tokens numbered among the tokens that have a
\* lexicon entry, so that the others consume no index: C27 rejects it
collect_verse_stats_of_known_tokens(tokens, lexicon) ==
    LET RECURSIVE from_token(_, _, _)
        from_token(idx, at, stats) ==
            IF idx >= Len(tokens) THEN stats
            ELSE LET token == tokens[idx + 1]
                     strongs_value ==
                         IF token.t = "dict"
                         THEN OrElse(OrElse(DictGet(token.d, "strongs"), DictGet(token.d, "strong")),
                                     DictGet(token.d, "s"))
                         ELSE IF token.t = "str" THEN token ELSE PyNone
                     strongs_number == normalize_strongs_number(strongs_value)
                     lex_entry == IF strongs_number = NoneOpt THEN <<>>
                                  ELSE Get(lexicon, TheValue(strongs_number), <<>>)
                     root == DictGet(lex_entry, "root")
                     initial == OrElse(DictGet(lex_entry, "first_root_letter"),
                                       DictGet(lex_entry, "first_root"))
                     roots == IF Truthy(root)
                              THEN Put(stats.roots, PyStr(root),
                                       Append(Get(stats.roots, PyStr(root), <<>>), at))
                              ELSE stats.roots
                     initials == IF Truthy(initial)
                                 THEN Put(stats.initials, PyStr(initial),
                                          Append(Get(stats.initials, PyStr(initial), <<>>), at))
                                 ELSE stats.initials
                 IN  from_token(idx + 1, IF lex_entry # <<>> THEN at + 1 ELSE at,
                                [roots |-> roots, initials |-> initials])
    IN  from_token(0, 0, VerseStats(<<>>, <<>>))

\* collect_verse_stats (lines 136-165): from_token is the loop from the token
\* at index idx on; roots and initials map a key to the list of its token
\* indices
collect_verse_stats(tokens, lexicon) ==
    LET RECURSIVE from_token(_, _)
        from_token(idx, stats) ==
            IF idx >= Len(tokens) THEN stats
            ELSE LET token == tokens[idx + 1]
                     strongs_value ==
                         IF token.t = "dict"
                         THEN OrElse(OrElse(DictGet(token.d, "strongs"), DictGet(token.d, "strong")),
                                     DictGet(token.d, "s"))
                         ELSE IF token.t = "str" THEN token ELSE PyNone
                     strongs_number == normalize_strongs_number(strongs_value)
                     lex_entry == IF strongs_number = NoneOpt THEN <<>>
                                  ELSE Get(lexicon, TheValue(strongs_number), <<>>)
                     root == DictGet(lex_entry, "root")
                     initial == OrElse(DictGet(lex_entry, "first_root_letter"),
                                       DictGet(lex_entry, "first_root"))
                     roots == IF Truthy(root)
                              THEN Put(stats.roots, PyStr(root),
                                       Append(Get(stats.roots, PyStr(root), <<>>), idx))
                              ELSE stats.roots
                     initials == IF Truthy(initial)
                                 THEN Put(stats.initials, PyStr(initial),
                                          Append(Get(stats.initials, PyStr(initial), <<>>), idx))
                                 ELSE stats.initials
                 IN  from_token(idx + 1, [roots |-> roots, initials |-> initials])
    IN  from_token(0, VerseStats(<<>>, <<>>))

\* make_verse_id (lines 168-171)
make_verse_id(book_key, chapter_int, verse_int) ==
    book_key \o <<"|">> \o Str(chapter_int) \o <<"|">> \o Str(verse_int)

\* tuple_from_range_point (lines 174-177), of a point that has both numbers
tuple_from_range_point(point) == <<point.chapter, point.verse>>

\* a <= b on (chapter, verse) tuples
TupleLeq(a, b) == a[1] < b[1] \/ (a[1] = b[1] /\ a[2] <= b[2])

\* lines 276-281: the statistics of every verse of the index
verse_stats_of(index, lexicon) ==
    LET ids == UNION {UNION {{<<b, c, v>> : v \in DOMAIN index[b][c]} : c \in DOMAIN index[b]}
                      : b \in DOMAIN index}
    IN  [id \in {make_verse_id(t[1], t[2], t[3]) : t \in ids} |->
            LET t == CHOOSE t \in ids : make_verse_id(t[1], t[2], t[3]) = id
            IN  collect_verse_stats(index[t[1]][t[2]][t[3]], lexicon)]

\* lines 194-245: the UnitStats of one unit of a book.  ordered_verses are
\* the (chapter, verse) pairs of the book in ascending order (lines 195-200);
\* unit_counts are the counts and the verse sets of the unit by root or by
\* initial (lines 219-235; which is "roots" or "initials")
unit_stat_of(book_key, book_data, unit, stats) ==
    LET RECURSIVE ordered_verses(_)
        ordered_verses(ordered_chapters) ==
            IF ordered_chapters = <<>> THEN <<>>
            ELSE LET ch == Head(ordered_chapters)
                     vs == Ascending(DOMAIN book_data[ch])
                 IN  [k \in 1..Len(vs) |-> <<ch, vs[k]>>] \o ordered_verses(Tail(ordered_chapters))
        start == tuple_from_range_point(unit.range_start)
        end == tuple_from_range_point(unit.range_end)
        verses_in_unit == SelectSeq(ordered_verses(Ascending(DOMAIN book_data)),
                                    LAMBDA cv : TupleLeq(start, cv) /\ TupleLeq(cv, end))
        verse_ids == [k \in 1..Len(verses_in_unit) |->
                         make_verse_id(book_key, verses_in_unit[k][1], verses_in_unit[k][2])]
        verse_refs == [k \in 1..Len(verses_in_unit) |->
                          Str(verses_in_unit[k][1]) \o <<":">> \o Str(verses_in_unit[k][2])]
        stats_of == [k \in 1..Len(verse_ids) |-> Get(stats, verse_ids[k], VerseStats(<<>>, <<>>))]
        with(which, key) == {k \in 1..Len(verse_refs) : key \in DOMAIN stats_of[k][which]}
        unit_counts(which) ==
            LET keys == UNION {DOMAIN stats_of[k][which] : k \in 1..Len(verse_refs)}
            IN  [counts |-> [key \in keys |->
                                SumOver([k \in with(which, key) |-> Len(stats_of[k][which][key])],
                                        with(which, key))],
                 verses |-> [key \in keys |-> {verse_refs[k] : k \in with(which, key)}]]
    IN  [book |-> book_key, verses |-> verse_ids, verse_refs |-> verse_refs,
         root_counts |-> unit_counts("roots").counts, initial_counts |-> unit_counts("initials").counts,
         root_verses |-> unit_counts("roots").verses, initial_verses |-> unit_counts("initials").verses]

\* compute_unit_stats (lines 180-251): verse_to_units, the second component
\* of its result (line 283 drops the first)
compute_unit_stats(index, units, stats) ==
    LET books == {b \in DOMAIN units : b \in DOMAIN index}
        unit_stats(b) == [k \in 1..Len(units[b]) |-> unit_stat_of(b, index[b], units[b][k], stats)]
        ids == UNION {UNION {Range(unit_stats(b)[k].verses) : k \in 1..Len(units[b])} : b \in books}
    IN  [id \in ids |->
            LET b == CHOOSE b \in books : \E k \in 1..Len(units[b]) : id \in Range(unit_stats(b)[k].verses)
            IN  SelectSeq(unit_stats(b), LAMBDA u : id \in Range(u.verses))]

\* the test for two distinct verses alone: C16 rejects it
should_include_recurring_item(verses_with_item, first_verse, last_verse) ==
    Cardinality(verses_with_item) >= 2

\* should_include_unit_item (lines 254-266); first_verse and last_verse are
\* Optional
should_include_unit_item(verses_with_item, first_verse, last_verse) ==
    IF Cardinality(verses_with_item) >= 2 THEN TRUE
    ELSE IF verses_with_item # {} /\ first_verse # NoneOpt /\ last_verse # NoneOpt
         THEN TheValue(first_verse) \in verses_with_item /\ TheValue(last_verse) \in verses_with_item
         ELSE FALSE

\* the order in which a run whose hash seed is seed iterates over a set of
\* strings: the ascending order rotated by the seed
IterationOrder(S, seed) ==
    LET asc == SortedCandidates([x \in S |-> 0], S)
        n == Len(asc)
    IN  [k \in 1..n |-> asc[((k - 1 + seed) % n) + 1]]

\* sorted(seq) of a list of strings
RECURSIVE sorted(_)
sorted(seq) ==
    IF seq = <<>> THEN <<>>
    ELSE LET k == CHOOSE k \in 1..Len(seq) : \A j \in 1..Len(seq) : ~StrLess(seq[j], seq[k])
         IN  <<seq[k]>> \o sorted(RemoveAt(seq, k))

\* dict(sorted(mapping.items())): the items in the order of their keys
sorted_items(mapping) ==
    LET keys == sorted(IterationOrder(DOMAIN mapping, 0))
    IN  [k \in 1..Len(keys) |-> <<keys[k], mapping[keys[k]]>>]

\* dict(sorted(items, key=lambda item: int(item[0]))) (lines 335, 337)
RECURSIVE sorted_by_int(_)
sorted_by_int(items) ==
    IF items = <<>> THEN <<>>
    ELSE LET k == Min({k \in 1..Len(items) :
                          \A j \in 1..Len(items) : DecValue(items[k][1]) <= DecValue(items[j][1])})
         IN  <<items[k]>> \o sorted_by_int(RemoveAt(items, k))

\* the first of the candidate units, whatever their sizes: C17 rejects it
primary_unit_first_listed(candidate_units) ==
    IF candidate_units = <<>> THEN NoneOpt ELSE Some(candidate_units[1])

\* line 296: the first of the candidate units with the fewest verses, or None
primary_unit(candidate_units) ==
    IF candidate_units = <<>> THEN NoneOpt
    ELSE LET fewest == Min({Len(candidate_units[k].verses) : k \in 1..Len(candidate_units)})
         IN  Some(candidate_units[Min({k \in 1..Len(candidate_units) :
                                          Len(candidate_units[k].verses) = fewest})])

\* the threshold applied to the unit total alone: C15 rejects it
local_items_by_unit_total(positions_of, primary_counts) ==
    [key \in {key \in DOMAIN positions_of : Get(primary_counts, key, 0) >= 3} |-> positions_of[key]]

\* lines 298-312: local_roots of stats.roots and the primary unit's
\* root_counts, local_initials of stats.initials and its initial_counts
\* (primary_counts is the empty mapping when there is no primary unit)
local_items(positions_of, primary_counts) ==
    LET keys == {key \in DOMAIN positions_of :
                    /\ ~(Len(positions_of[key]) < 2)
                    /\ Get(primary_counts, key, 0) >= 3}
    IN  [key \in keys |-> positions_of[key]]

\* lines 314-325: unit_clusters, key -> set of verse references
unit_clusters_of(candidate_units) ==
    LET first_ref(u) == IF u.verse_refs # <<>> THEN Some(u.verse_refs[1]) ELSE NoneOpt
        last_ref(u) == IF u.verse_refs # <<>> THEN Some(u.verse_refs[Len(u.verse_refs)]) ELSE NoneOpt
        included(u, verses_of) ==
            {key \in DOMAIN verses_of : should_include_unit_item(verses_of[key], first_ref(u), last_ref(u))}
        keys == UNION {included(candidate_units[k], candidate_units[k].root_verses)
                       \cup included(candidate_units[k], candidate_units[k].initial_verses)
                       : k \in 1..Len(candidate_units)}
        values(u, verses_of, key) ==
            IF key \in included(u, verses_of) THEN verses_of[key] ELSE {}
    IN  [key \in keys |->
            UNION {values(candidate_units[k], candidate_units[k].root_verses, key)
                   \cup values(candidate_units[k], candidate_units[k].initial_verses, key)
                   : k \in 1..Len(candidate_units)}]

\* list(values), the references as the set yields them: C18 rejects it
cluster_values_as_iterated(values, seed) == IterationOrder(values, seed)

\* line 327: sorted(values) of a set of verse references, in a run whose
\* hash seed is seed
cluster_values(values, seed) == sorted(IterationOrder(values, seed))

\* lines 292-333: the output of one verse
verse_output(stats, candidate_units, seed) ==
    LET primary == primary_unit(candidate_units)
        root_counts == IF primary = NoneOpt THEN <<>> ELSE TheValue(primary).root_counts
        initial_counts == IF primary = NoneOpt THEN <<>> ELSE TheValue(primary).initial_counts
        unit_clusters == unit_clusters_of(candidate_units)
        keys == sorted(IterationOrder(DOMAIN unit_clusters, 0))
    IN  [local_roots |-> sorted_items(local_items(stats.roots, root_counts)),
         local_initials |-> sorted_items(local_items(stats.initials, initial_counts)),
         unit_clusters |-> [k \in 1..Len(keys) |-> <<keys[k], cluster_values(unit_clusters[keys[k]], seed)>>]]

\* lines 285-339: the annotations, book -> chapter -> verse -> output, every
\* mapping as the list of its items in iteration order
annotations_of(index, stats, units_of, seed) ==
    LET books == sorted(IterationOrder(DOMAIN index, 0))
        chapter_output(b, c) ==
            LET vs == Ascending(DOMAIN index[b][c])
            IN  [k \in 1..Len(vs) |->
                    <<Str(vs[k]),
                      verse_output(Get(stats, make_verse_id(b, c, vs[k]), VerseStats(<<>>, <<>>)),
                                   Get(units_of, make_verse_id(b, c, vs[k]), <<>>), seed)>>]
        book_output(b) ==
            LET cs == Ascending(DOMAIN index[b])
            IN  [k \in 1..Len(cs) |-> <<Str(cs[k]), sorted_by_int(chapter_output(b, cs[k]))>>]
    IN  [k \in 1..Len(books) |-> <<books[k], sorted_by_int(book_output(books[k]))>>]

\* build_sound_annotations (lines 269-339)
build_sound_annotations(index, units, lexicon, seed) ==
    LET stats == verse_stats_of(index, lexicon)
    IN  annotations_of(index, stats, compute_unit_stats(index, units, stats), seed)

(***************************************************************************)
(* A run of build_sound_annotations.py (main, lines 353-367).              *)
(***************************************************************************)
Gen == <<"G","e","n">>
Exo == <<"E","x","o">>

\* tokens: an object with a reference under "strongs", a bare string in lower
\* case, an object with a list under "strong", an object whose reference is
\* not in the lexicon, and a number
TokA == JDict("strongs" :> JStr(<<"H","1">>))
TokB == JStr(<<"h","2">>)
TokC == JDict("strong" :> JList(<<JStr(<<"x">>), JStr(<<"s","e","e"," ","G","3",".">>)>>))
TokN == JDict("s" :> JStr(<<"H","9">>))
TokX == JInt(7)

\* H1 and G3 share the root "ab"; H1, H2 and G3 share the initial "a"
SoundLexicon ==
    (<<"H","1">> :> ("root" :> JStr(<<"a","b">>) @@ "first_root_letter" :> JStr(<<"a">>)))
    @@ (<<"H","2">> :> ("root" :> JStr(<<"c","d">>) @@ "first_root" :> JStr(<<"a">>)))
    @@ (<<"G","3">> :> ("root" :> JStr(<<"a","b">>) @@ "first_root_letter" :> JStr(<<>>) @@ "first_root" :> JStr(<<"a">>)))
    @@ (<<"H","4">> :> <<>>)

\* a verse entry as the tokenizer writes it
SoundEntry(book_key, chapter_int, verse_int, tokens) ==
    ("book_name" :> JStr(book_key)) @@ ("chapter" :> JInt(chapter_int))
    @@ ("verse" :> JInt(verse_int)) @@ ("tokens" :> JList(tokens))

TokenLists == {<<>>, <<TokA>>, <<TokA, TokA>>, <<TokB, TokN, TokC>>}
MaxSoundVerses == 3
MaxSeed == 1

\* the outlines of Genesis: no unit, one unit over the chapter, a one-verse
\* unit inside it (listed after it, or before it), two overlapping units of
\* the same size, two units that leave the last verse out
Outlines ==
    {<<>>,
     <<Unit(1, 1, 1, MaxSoundVerses)>>,
     <<Unit(1, 1, 1, MaxSoundVerses), Unit(1, 2, 1, 2)>>,
     <<Unit(1, 2, 1, 2), Unit(1, 1, 1, MaxSoundVerses)>>,
     <<Unit(1, 1, 1, 2), Unit(1, 2, 1, 3)>>,
     <<Unit(1, 1, 1, MaxSoundVerses - 1), Unit(1, 2, 1, 2)>>}

\* entries that break the schema, or come close to it
EntryVariants ==
    {SoundEntry(Gen, 1, 1, <<TokA, TokA>>),
     ("book" :> JStr(Exo)) @@ ("chapter" :> JStr(<<"2">>)) @@ ("verse" :> JInt(1))
         @@ ("words" :> JList(<<TokB>>)),
     ("chapter" :> JInt(1)) @@ ("verse" :> JInt(1)) @@ ("tokens" :> JList(<<TokA>>)),
     ("book_name" :> JStr(<<>>)) @@ ("chapter" :> JInt(1)) @@ ("verse" :> JInt(1))
         @@ ("tokens" :> JList(<<TokA>>)),
     ("book_name" :> JStr(Gen)) @@ ("chapter" :> JStr(<<"x">>)) @@ ("verse" :> JInt(1))
         @@ ("tokens" :> JList(<<TokA>>)),
     ("book_name" :> JStr(Gen)) @@ ("chapter" :> JInt(1)) @@ ("tokens" :> JList(<<TokA>>)),
     ("book_name" :> JStr(Gen)) @@ ("chapter" :> JInt(1)) @@ ("verse" :> JInt(2))
         @@ ("tokens" :> JStr(<<"a","b">>)),
     ("book_name" :> JStr(Gen)) @@ ("chapter" :> JInt(1)) @@ ("verse" :> JInt(2))
         @@ ("tokens" :> JDict("a" :> JInt(1))),
     ("book_name" :> JStr(Gen)) @@ ("chapter" :> JInt(1)) @@ ("verse" :> JInt(2))
         @@ ("tokens" :> JDict(<<>>)),
     ("book_name" :> JStr(Gen)) @@ ("chapter" :> JInt(1)) @@ ("verse" :> JInt(2))
         @@ ("tokens" :> JStr(<<>>)),
     ("book_name" :> JStr(Gen)) @@ ("chapter" :> JInt(1)) @@ ("verse" :> JInt(2))}
MaxEntries == 2

\* no call of the rendering pipeline; kjv is the corpus of the process
RenderIdle(kjv) ==
    /\ pc = "idle"
    /\ call_mode = "direct"
    /\ book = "Gen"
    /\ chapter = 1
    /\ strongs_dict_path = NoOverrides
    /\ strongs_path = NoLexicon
    /\ kjv_path = kjv
    /\ max_repeated_highlights = IntCap(DefaultCap)
    /\ active_units = <<>>
    /\ _global_strongs_counts = NoneOpt
    /\ _verses_by_book = NoneOpt
    /\ chapter_data = <<>>
    /\ replacement_mapping = <<>>
    /\ repeated_strongs = {}
    /\ uncommon_lookup = <<>>
    /\ vi = 0
    /\ si = 0
    /\ result = <<>>
    /\ returned = NoneOpt
    /\ raised = ""
    /\ calls = <<>>
    /\ context = [global_count |-> 0, unit_peak |-> 0]
    /\ classified = NoneOpt
render_vars == <<pc, call_mode, book, chapter, strongs_dict_path, strongs_path, kjv_path,
                 max_repeated_highlights, active_units, _global_strongs_counts, _verses_by_book,
                 chapter_data, replacement_mapping, repeated_strongs, uncommon_lookup, vi, si,
                 result, returned, raised, calls, context, classified>>

\* lines 358-360: the three inputs are loaded
Loaded(entries, units, lexicon, seed) ==
    /\ RenderIdle(<<>>)
    /\ NoThreads
    /\ sound_pc = "loaded"
    /\ bible_tokens = entries
    /\ literary_units = units
    /\ lexicon_roots = lexicon
    /\ hash_seed = seed
    /\ bible_index = NoneOpt
    /\ verse_stats = <<>>
    /\ verse_to_units = <<>>
    /\ annotations = NoneOpt
    /\ sound_raised = ""

\* one chapter of Genesis under each outline, and short corpora of entries
\* that may break the schema
InitChapter ==
    \E lists \in [1..MaxSoundVerses -> TokenLists], outline \in Outlines, seed \in 0..MaxSeed :
        Loaded([v \in 1..MaxSoundVerses |-> SoundEntry(Gen, 1, v, lists[v])],
               IF outline = <<>> THEN <<>> ELSE (Gen :> outline), SoundLexicon, seed)
InitEntries ==
    \E n \in 1..MaxEntries : \E entries \in [1..n -> EntryVariants], seed \in 0..MaxSeed :
        Loaded(entries, (Gen :> <<Unit(1, 1, 1, 2)>>) @@ (<<"L","e","v">> :> <<Unit(1, 1, 1, 2)>>),
               SoundLexicon, seed)
InitSound == InitChapter \/ InitEntries

\* line 361
BuildIndex ==
    /\ sound_pc = "loaded"
    /\ LET built == build_index_by_book_chapter_verse(bible_tokens)
       IN  IF built.raised # ""
           THEN /\ sound_pc' = "raised"
                /\ sound_raised' = built.raised
                /\ UNCHANGED bible_index
           ELSE /\ sound_pc' = "indexed"
                /\ bible_index' = Some(built.index)
                /\ UNCHANGED sound_raised
    /\ UNCHANGED <<bible_tokens, literary_units, lexicon_roots, hash_seed, verse_stats,
                   verse_to_units, annotations, threads, render_vars>>

\* lines 276-281
CollectVerseStats ==
    /\ sound_pc = "indexed"
    /\ verse_stats' = verse_stats_of(TheValue(bible_index), lexicon_roots)
    /\ sound_pc' = "collected"
    /\ UNCHANGED <<bible_tokens, literary_units, lexicon_roots, hash_seed, bible_index,
                   verse_to_units, annotations, sound_raised, threads, render_vars>>

\* line 283
ComputeUnitStats ==
    /\ sound_pc = "collected"
    /\ verse_to_units' = compute_unit_stats(TheValue(bible_index), literary_units, verse_stats)
    /\ sound_pc' = "grouped"
    /\ UNCHANGED <<bible_tokens, literary_units, lexicon_roots, hash_seed, bible_index,
                   verse_stats, annotations, sound_raised, threads, render_vars>>

\* lines 285-339 and the return to main (line 363)
Annotate ==
    /\ sound_pc = "grouped"
    /\ annotations' = Some(annotations_of(TheValue(bible_index), verse_stats, verse_to_units, hash_seed))
    /\ sound_pc' = "done"
    /\ UNCHANGED <<bible_tokens, literary_units, lexicon_roots, hash_seed, bible_index,
                   verse_stats, verse_to_units, sound_raised, threads, render_vars>>

NextSound == BuildIndex \/ CollectVerseStats \/ ComputeUnitStats \/ Annotate

SpecSound == InitSound /\ [][NextSound]_vars

(***************************************************************************)
(* Claims about the output of build_sound_annotations.py.                  *)
(***************************************************************************)
\* the outputs of the finished run: (verse id, output of the verse)
VerseOutputs ==
    LET books == TheValue(annotations)
    IN  UNION {UNION {{<<make_verse_id(books[i][1], DecValue(books[i][2][j][1]),
                                       DecValue(books[i][2][j][2][k][1])),
                         books[i][2][j][2][k][2]>>
                       : k \in 1..Len(books[i][2][j][2])}
                      : j \in 1..Len(books[i][2])}
               : i \in 1..Len(books)}
OutputOf(id) == (CHOOSE p \in VerseOutputs : p[1] = id)[2]
\* the keys of one mapping of an output
KeysOf(items) == {items[k][1] : k \in 1..Len(items)}
LocalKeys(id, which) ==
    KeysOf(IF which = "roots" THEN OutputOf(id).local_roots ELSE OutputOf(id).local_initials)
\* the roots or initials met anywhere in the corpus
AllKeys(which) == UNION {DOMAIN verse_stats[id][which] : id \in DOMAIN verse_stats}
\* the number of token positions of the verse that hold the root or initial
PositionCount(id, which, key) == Len(Get(verse_stats[id][which], key, <<>>))
\* the total of the root or initial over a list of distinct verses
TotalOver(ids, which, key) ==
    SumOver([k \in 1..Len(ids) |-> PositionCount(ids[k], which, key)], 1..Len(ids))
\* its total over the primary unit of the verse; 0 when the verse is in no unit
PrimaryTotal(id, which, key) ==
    IF id \notin DOMAIN verse_to_units THEN 0
    ELSE TotalOver(TheValue(primary_unit(verse_to_units[id])).verses, which, key)

\* C15: a root (an initial) is a key of a verse's local_roots
\* (local_initials) exactly when it occurs at two or more token positions of
\* the verse and its total over the verse's primary unit is three or more.
C15_LocalIffTwiceAndUnitTotalThree ==
    sound_pc = "done" =>
        \A id \in DOMAIN verse_stats : \A which \in {"roots", "initials"} :
            \A key \in AllKeys(which) :
                key \in LocalKeys(id, which)
                    <=> (PositionCount(id, which, key) >= 2 /\ PrimaryTotal(id, which, key) >= 3)

\* one run with a root that is local to a verse, a root that occurs twice in
\* a verse whose primary unit holds it twice only, and an initial that occurs
\* twice in a verse of no unit
C15_Witness ==
    /\ sound_pc = "done"
    /\ \E id \in DOMAIN verse_stats : <<"a","b">> \in LocalKeys(id, "roots")
    /\ \E id \in DOMAIN verse_stats :
          /\ PositionCount(id, "roots", <<"a","b">>) = 2
          /\ PrimaryTotal(id, "roots", <<"a","b">>) = 2
          /\ id \in DOMAIN verse_to_units
          /\ <<"a","b">> \notin LocalKeys(id, "roots")
    /\ \E id \in DOMAIN verse_stats :
          /\ PositionCount(id, "initials", <<"a">>) = 2
          /\ id \notin DOMAIN verse_to_units
          /\ <<"a">> \notin LocalKeys(id, "initials")

\* the verses of the index, as (book, chapter, verse)
IndexedVerses ==
    LET index == TheValue(bible_index)
    IN  UNION {UNION {{<<b, c, v>> : v \in DOMAIN index[b][c]} : c \in DOMAIN index[b]}
               : b \in DOMAIN index}
IdOf(t) == make_verse_id(t[1], t[2], t[3])
\* the units of the outline of a book, and the member verses of one of them
OutlineOf(b) == Get(literary_units, b, <<>>)
Members(b, unit) ==
    {t \in IndexedVerses :
        /\ t[1] = b
        /\ TupleLeq(<<unit.range_start.chapter, unit.range_start.verse>>, <<t[2], t[3]>>)
        /\ TupleLeq(<<t[2], t[3]>>, <<unit.range_end.chapter, unit.range_end.verse>>)}
\* the root or initial occurs in two distinct verses of the unit, or at its
\* first verse and at its last verse
Clustered(b, unit, which, key) ==
    LET with == {t \in Members(b, unit) : PositionCount(IdOf(t), which, key) >= 1}
    IN  \/ Cardinality(with) >= 2
        \/ \E first \in with, last \in with :
              \A t \in Members(b, unit) : /\ TupleLeq(<<first[2], first[3]>>, <<t[2], t[3]>>)
                                          /\ TupleLeq(<<t[2], t[3]>>, <<last[2], last[3]>>)
ClusterKeys(id) == KeysOf(OutputOf(id).unit_clusters)

\* C16: a root or initial is a key of a verse's unit_clusters exactly when,
\* for some unit that contains the verse, it occurs in two or more distinct
\* verses of the unit or at both the first and the last verse of the unit,
\* however often it occurs in the verse itself.
C16_ClusterIffRecursInUnit ==
    sound_pc = "done" =>
        \A t \in IndexedVerses : \A key \in AllKeys("roots") \cup AllKeys("initials") :
            key \in ClusterKeys(IdOf(t))
                <=> \E k \in 1..Len(OutlineOf(t[1])) :
                        /\ t \in Members(t[1], OutlineOf(t[1])[k])
                        /\ \E which \in {"roots", "initials"} :
                              Clustered(t[1], OutlineOf(t[1])[k], which, key)

\* one run with a cluster key in a verse that does not hold it, and a cluster
\* key that occurs in one verse of the corpus only (the only verse of a unit)
C16_Witness ==
    /\ sound_pc = "done"
    /\ \E t \in IndexedVerses : \E key \in ClusterKeys(IdOf(t)) :
          PositionCount(IdOf(t), "roots", key) = 0 /\ PositionCount(IdOf(t), "initials", key) = 0
    /\ \E t \in IndexedVerses : \E key \in ClusterKeys(IdOf(t)) :
          \A u \in IndexedVerses \ {t} :
              PositionCount(IdOf(u), "roots", key) = 0 /\ PositionCount(IdOf(u), "initials", key) = 0

\* the units of the outline that contain the verse, and those of them with
\* the fewest member verses
Containing(t) == {k \in 1..Len(OutlineOf(t[1])) : t \in Members(t[1], OutlineOf(t[1])[k])}
Tightest(t) ==
    {k \in Containing(t) :
        \A j \in Containing(t) : Cardinality(Members(t[1], OutlineOf(t[1])[k]))
                                     <= Cardinality(Members(t[1], OutlineOf(t[1])[j]))}
\* the keys the threshold lets through when the totals are those of unit k
LocalKeysUnder(t, k, which) ==
    {key \in AllKeys(which) :
        /\ PositionCount(IdOf(t), which, key) >= 2
        /\ SumOver([u \in Members(t[1], OutlineOf(t[1])[k]) |-> PositionCount(IdOf(u), which, key)],
                   Members(t[1], OutlineOf(t[1])[k])) >= 3}

\* C17: for a verse in the range of more than one unit, the totals used for
\* the threshold of local_roots and local_initials are those of a unit with
\* the fewest member verses among the units that contain the verse.
C17_PrimaryIsTightestUnit ==
    sound_pc = "done" =>
        \A t \in IndexedVerses :
            Cardinality(Containing(t)) > 1 =>
                \E k \in Tightest(t) : \A which \in {"roots", "initials"} :
                    LocalKeys(IdOf(t), which) = LocalKeysUnder(t, k, which)

\* a verse of two units whose totals put the root on different sides of the
\* threshold, the larger unit listed first
C17_Witness ==
    /\ sound_pc = "done"
    /\ \E t \in IndexedVerses :
          /\ Cardinality(Containing(t)) > 1
          /\ 1 \notin Tightest(t)
          /\ LocalKeysUnder(t, 1, "roots") # {}
          /\ LocalKeys(IdOf(t), "roots") = {}

\* C18: two runs on identical inputs produce identical output, key order and
\* list order included: the output of the finished run is the output of a
\* run on the same entries, units and lexicon under every hash seed.
C18_SameOutputUnderEverySeed ==
    sound_pc = "done" =>
        \A seed \in 0..MaxSeed :
            TheValue(annotations)
                = build_sound_annotations(build_index_by_book_chapter_verse(bible_tokens).index,
                                          literary_units, lexicon_roots, seed)

\* a finished run under a seed other than 0 whose output has a verse with two
\* cluster keys and a cluster of two references
C18_Witness ==
    /\ sound_pc = "done"
    /\ hash_seed # 0
    /\ \E t \in IndexedVerses :
          /\ Cardinality(ClusterKeys(IdOf(t))) >= 2
          /\ \E k \in 1..Len(OutputOf(IdOf(t)).unit_clusters) :
                Len(OutputOf(IdOf(t)).unit_clusters[k][2]) >= 2

\* an entry that breaks the schema: no book field, no chapter or verse that
\* converts to an integer, or a value under "tokens" that is not a list
LacksBook(entry) == DictGet(entry, "book_name").t = "none" /\ DictGet(entry, "book").t = "none"
LacksNumber(entry) ==
    PyInt(DictGet(entry, "chapter")) = NoneOpt \/ PyInt(DictGet(entry, "verse")) = NoneOpt
NonListTokens(entry) == DictGet(entry, "tokens").t \notin {"none", "list"}
BreaksSchema(entry) == LacksBook(entry) \/ LacksNumber(entry) \/ NonListTokens(entry)

\* C19: build_index_by_book_chapter_verse raises ValueError and produces no
\* index whenever an entry lacks a book field, lacks a chapter or verse that
\* converts to an integer, or supplies tokens that are not a list, an empty
\* object or an empty string included.
C19_SchemaViolationsRaise ==
    (sound_pc # "loaded" /\ \E k \in 1..Len(bible_tokens) : BreaksSchema(bible_tokens[k]))
        => (sound_raised = "ValueError" /\ bible_index = NoneOpt)

(***************************************************************************)
(* The module caches of app/transliteration.py under concurrent callers.   *)
(* Each thread makes one first call of get_verses_by_book or of            *)
(* get_global_strongs_counts and takes one step per statement.  A dict is   *)
(* an object: threads.heap lists the dicts created so far, and here        *)
(* _verses_by_book holds the index in the heap of the dict it is bound to. *)
(***************************************************************************)
MaxThreads == 2
MaxCorpus == 2
CacheCorpus == <<Verse(1, 1, <<"g","i","v","e","{","H","1","}">>),
                 [Verse(1, 2, <<"f","o","r","{","H","2","}","{","H","1","}">>) EXCEPT !.book_name = "Exo"],
                 Verse(2, 1, <<"t","h","e","{","H","1","}">>),
                 Verse(2, 2, <<"f","a","r","{","H","3","}">>)>>
Getters == {"get_verses_by_book", "get_global_strongs_counts"}

InitCache ==
    \E n \in 1..MaxCorpus, getter \in [1..MaxThreads -> Getters] :
        /\ RenderIdle(SubSeq(CacheCorpus, 1, n))
        /\ SoundIdle
        /\ threads = [heap |-> <<>>,
                      of |-> [t \in 1..MaxThreads |->
                                 [getter |-> getter[t], at |-> "test", i |-> 0, ref |-> 0,
                                  counts |-> NoneOpt, seen |-> NoneOpt]]]

cache_frame == <<pc, call_mode, book, chapter, strongs_dict_path, strongs_path, kjv_path,
                 max_repeated_highlights, active_units, chapter_data, replacement_mapping,
                 repeated_strongs, uncommon_lookup, vi, si, result, returned, raised, calls,
                 context, classified, sound_vars>>

\* line 38: if _verses_by_book is None
VersesTest(t) ==
    /\ threads.of[t].getter = "get_verses_by_book"
    /\ threads.of[t].at = "test"
    /\ threads' = [threads EXCEPT !.of[t].at = IF _verses_by_book = NoneOpt THEN "assign" ELSE "return"]
    /\ UNCHANGED <<_verses_by_book, _global_strongs_counts, cache_frame>>

\* line 39: _verses_by_book = {}
VersesAssign(t) ==
    /\ threads.of[t].getter = "get_verses_by_book"
    /\ threads.of[t].at = "assign"
    /\ _verses_by_book' = Some(Len(threads.heap) + 1)
    /\ threads' = [threads EXCEPT !.heap = Append(@, <<>>),
                                  !.of[t].i = 1,
                                  !.of[t].at = IF kjv_path = <<>> THEN "return" ELSE "loop"]
    /\ UNCHANGED <<_global_strongs_counts, cache_frame>>

\* lines 40-41: one turn of the loop; the statement reads the global anew
VersesAppend(t) ==
    /\ threads.of[t].getter = "get_verses_by_book"
    /\ threads.of[t].at = "loop"
    /\ LET i == threads.of[t].i
           verse == kjv_path[i]
           ref == TheValue(_verses_by_book)
           bound == threads.heap[ref]
       IN  threads' = [threads EXCEPT
                          !.heap[ref] = Put(bound, verse.book_name,
                                            Append(Get(bound, verse.book_name, <<>>), verse)),
                          !.of[t].i = i + 1,
                          !.of[t].at = IF i = Len(kjv_path) THEN "return" ELSE "loop"]
    /\ UNCHANGED <<_verses_by_book, _global_strongs_counts, cache_frame>>

\* line 42: return _verses_by_book
VersesReturn(t) ==
    /\ threads.of[t].getter = "get_verses_by_book"
    /\ threads.of[t].at = "return"
    /\ threads' = [threads EXCEPT !.of[t].ref = TheValue(_verses_by_book), !.of[t].at = "use"]
    /\ UNCHANGED <<_verses_by_book, _global_strongs_counts, cache_frame>>

\* lines 56-57: the caller reads the dict it was given
VersesUse(t) ==
    /\ threads.of[t].getter = "get_verses_by_book"
    /\ threads.of[t].at = "use"
    /\ threads' = [threads EXCEPT !.of[t].seen = Some(threads.heap[threads.of[t].ref]),
                                  !.of[t].at = "done"]
    /\ UNCHANGED <<_verses_by_book, _global_strongs_counts, cache_frame>>

\* line 31: if _global_strongs_counts is None
CountsTest(t) ==
    /\ threads.of[t].getter = "get_global_strongs_counts"
    /\ threads.of[t].at = "test"
    /\ threads' = [threads EXCEPT !.of[t].at = IF _global_strongs_counts = NoneOpt THEN "assign" ELSE "return"]
    /\ UNCHANGED <<_verses_by_book, _global_strongs_counts, cache_frame>>

\* line 32: the counter is complete when it is bound to the global
CountsAssign(t) ==
    /\ threads.of[t].getter = "get_global_strongs_counts"
    /\ threads.of[t].at = "assign"
    /\ _global_strongs_counts' = Some(count_strongs_in_verses(kjv_path, {}))
    /\ threads' = [threads EXCEPT !.of[t].at = "return"]
    /\ UNCHANGED <<_verses_by_book, cache_frame>>

\* line 33: return _global_strongs_counts
CountsReturn(t) ==
    /\ threads.of[t].getter = "get_global_strongs_counts"
    /\ threads.of[t].at = "return"
    /\ threads' = [threads EXCEPT !.of[t].counts = _global_strongs_counts, !.of[t].at = "done"]
    /\ UNCHANGED <<_verses_by_book, _global_strongs_counts, cache_frame>>

NextCache ==
    \E t \in 1..MaxThreads :
        \/ VersesTest(t) \/ VersesAssign(t) \/ VersesAppend(t) \/ VersesReturn(t) \/ VersesUse(t)
        \/ CountsTest(t) \/ CountsAssign(t) \/ CountsReturn(t)

SpecCache == InitCache /\ [][NextCache]_vars

\* the index lists every verse of the corpus once under its book, and nothing else
ListsEachVerseOnce(index) ==
    /\ \A k \in 1..Len(kjv_path) :
          Cardinality({j \in 1..Len(Get(index, kjv_path[k].book_name, <<>>)) :
                          index[kjv_path[k].book_name][j] = kjv_path[k]}) = 1
    /\ \A b \in DOMAIN index : \A j \in 1..Len(index[b]) :
          index[b][j].book_name = b /\ index[b][j] \in Range(kjv_path)
\* the counts are the numbers of markers in the corpus
TrueCounts(counts) ==
    \A sn \in DOMAIN counts \cup {H1, H2, H3} : Get(counts, sn, 0) = GlobalCount(sn)

\* C20: under any interleaving of concurrent first calls every caller gets a
\* complete result: the book index, when the caller reads it, lists every
\* verse of the corpus exactly once under its book, and the global counts
\* are the counts of the corpus.
C20_CallersSeeCompleteCaches ==
    \A t \in 1..MaxThreads :
        /\ threads.of[t].seen # NoneOpt => ListsEachVerseOnce(TheValue(threads.of[t].seen))
        /\ threads.of[t].counts # NoneOpt => TrueCounts(TheValue(threads.of[t].counts))

----------------------------------------------------------------------------
(* Several calls of transliterate_chapter in one process.  The module      *)
(* globals _global_strongs_counts and _verses_by_book outlive a call; the   *)
(* arguments and the locals do not.                                        *)

\* two corpora that differ in the rest of the book only: the next chapter
\* holds no marker of H1, or as many as make H1 common
CallCorpora ==
    {<<Verse(1, 1, <<"g","i","v","e","{","H","1","}">>), Verse(2, 1, Times(n, Marker(H1)))>> : n \in {0, GlobalRareMax}}

CallStores == {NoOverrides, Overrides1}

CallUnits == {<<>>, <<Unit(1, 1, 2, 1)>>}

CallChapters == {1, 2}

\* the state of transliteration.py before the first call of a process
FirstCallOf(kjv, store, units, ch) ==
    /\ pc = "start"
    /\ call_mode = "direct"
    /\ book = "Gen"
    /\ chapter = ch
    /\ strongs_dict_path = store
    /\ strongs_path = Lexicon1
    /\ kjv_path = kjv
    /\ max_repeated_highlights = IntCap(DefaultCap)
    /\ active_units = units
    /\ _global_strongs_counts = NoneOpt
    /\ _verses_by_book = NoneOpt
    /\ chapter_data = <<>>
    /\ replacement_mapping = <<>>
    /\ repeated_strongs = {}
    /\ uncommon_lookup = <<>>
    /\ vi = 0
    /\ si = 0
    /\ result = <<>>
    /\ returned = NoneOpt
    /\ raised = ""
    /\ calls = <<>>
    /\ context = [global_count |-> 0, unit_peak |-> 0]
    /\ classified = NoneOpt
    /\ NoThreads

\* the first call of a process
InitCalls ==
    \E kjv \in CallCorpora, store \in CallStores, units \in CallUnits, ch \in CallChapters :
        FirstCallOf(kjv, store, units, ch) /\ SoundIdle

\* the next request: the caller calls transliterate_chapter again, with
\* arguments of its choice; the locals of the call are new, the module
\* globals are what the earlier calls left
CallAgain ==
    /\ pc \in {"done", "raised"}
    /\ \E kjv \in CallCorpora, store \in CallStores, units \in CallUnits, ch \in CallChapters :
        /\ chapter' = ch
        /\ strongs_dict_path' = store
        /\ kjv_path' = kjv
        /\ active_units' = units
    /\ pc' = "start"
    /\ chapter_data' = <<>>
    /\ replacement_mapping' = <<>>
    /\ repeated_strongs' = {}
    /\ uncommon_lookup' = <<>>
    /\ vi' = 0
    /\ si' = 0
    /\ result' = <<>>
    /\ returned' = NoneOpt
    /\ raised' = ""
    /\ calls' = <<>>
    /\ UNCHANGED <<call_mode, book, strongs_path, max_repeated_highlights,
                   _global_strongs_counts, _verses_by_book, context, classified,
                   threads, sound_vars>>

NextCalls == Setup \/ RenderMarker \/ FinishVerse \/ Return \/ CallAgain

SpecCalls == InitCalls /\ [][NextCalls]_vars

\* what a first call in a fresh process returns for the arguments of the
\* call in progress
FirstCall ==
    transliterate_chapter(kjv_path, book, chapter, strongs_dict_path, strongs_path,
                          max_repeated_highlights.n, active_units)

\* C21: a call that returns, whatever calls came before it in the process,
\* returns the string that a first call in a fresh process returns for the
\* same arguments.
C21_LaterCallAsFirstCall ==
    pc = "done" => FirstCall.raised = "" /\ returned = Some(FirstCall.value)

\* the same for the calls that find in the module globals the counts and the
\* index of their own corpus, as every call of a process with one corpus does
C21_SameCorpusAsFirstCall ==
    (/\ pc = "done"
     /\ _global_strongs_counts = Some(count_strongs_in_verses(kjv_path, {}))
     /\ _verses_by_book \in {NoneOpt, Some(verses_by_book_of(kjv_path))})
        => FirstCall.raised = "" /\ returned = Some(FirstCall.value)

----------------------------------------------------------------------------
(* Calls of generate_repeat_colors next to a call of transliterate_chapter, *)
(* in processes of any string hash seed.                                   *)

\* largest number of calls of generate_repeat_colors in one process
MaxColorCalls == 2

ColorCalls == {k \in CallRange : calls[k].outcome = "colors"}

\* a process of any hash seed, before its call of transliterate_chapter
InitColors ==
    \E kjv \in CallCorpora, units \in CallUnits, ch \in CallChapters, seed \in 0..MaxSeed :
        /\ FirstCallOf(kjv, NoOverrides, units, ch)
        /\ sound_pc = "idle"
        /\ bible_tokens = <<>>
        /\ literary_units = <<>>
        /\ lexicon_roots = <<>>
        /\ hash_seed = seed
        /\ bible_index = NoneOpt
        /\ verse_stats = <<>>
        /\ verse_to_units = <<>>
        /\ annotations = NoneOpt
        /\ sound_raised = ""

\* a caller calls generate_repeat_colors(sn), before or after the call of
\* transliterate_chapter; the pair it returns is recorded
GenerateColors ==
    /\ pc \in {"start", "done"}
    /\ Cardinality(ColorCalls) < MaxColorCalls
    /\ \E sn \in Ids :
        calls' = Append(calls, [sn |-> sn, outcome |-> "colors",
                                colors |-> generate_repeat_colors(sn)])
    /\ UNCHANGED <<pc, call_mode, book, chapter, strongs_dict_path, strongs_path, kjv_path,
                   max_repeated_highlights, active_units, _global_strongs_counts,
                   _verses_by_book, chapter_data, replacement_mapping, repeated_strongs,
                   uncommon_lookup, vi, si, result, returned, raised, context, classified,
                   threads, sound_vars>>

NextColors == Setup \/ RenderMarker \/ FinishVerse \/ Return \/ GenerateColors

SpecColors == InitColors /\ [][NextColors]_vars

----------------------------------------------------------------------------
(* C23: the inputs of the call.                                            *)

----------------------------------------------------------------------------
(* C24: the repeat set as a prefix of the ordered candidates.              *)

\* the ids of the chapter that occur min_repeat_count times or more and are
\* not in the stop-list
Candidates == {sn \in ChapterIds \ stop_strongs : ChapterCount(sn) >= min_repeat_count}

\* C24: with the candidates ordered by descending chapter count and, among
\* equal counts, by ascending id, the repeat set is the first min(N, number
\* of candidates) of them, N the cap: a candidate is a member exactly when
\* fewer than N candidates come before it, and no candidate left out occurs
\* more often than a member.
C24_RepeatSetIsPrefixOfRanking ==
    (pc = "loop" /\ vi = 1 /\ si = 1 /\ max_repeated_highlights.kind = "int") =>
        /\ repeated_strongs =
               {sn \in Candidates : Cardinality(RankedBefore(sn)) < max_repeated_highlights.n}
        /\ Cardinality(repeated_strongs) =
               Min({max_repeated_highlights.n, Cardinality(Candidates)})
        /\ \A sn \in repeated_strongs, o \in Candidates \ repeated_strongs :
               ChapterCount(o) <= ChapterCount(sn)

\* two candidates occur equally often, the cap admits one of them, and the
\* repeat set holds the one with the smaller id
C24_Witness ==
    /\ pc = "loop" /\ vi = 1 /\ si = 1
    /\ max_repeated_highlights = IntCap(1)
    /\ ChapterCount(H1) = ChapterCount(H2)
    /\ {H1, H2} \subseteq Candidates
    /\ repeated_strongs = {H1}

----------------------------------------------------------------------------
(* First calls on a book of two chapters under lists of active units.      *)

\* largest number of active units passed to a call
MaxUnits == 2

\* what the verses around the rendered verse may hold
UnitTexts == {<<>>, <<"{","H","1","}","{","H","2","}">>}

\* a book of two chapters; Gen 1:2 and Gen 2:2 are the verses with words,
\* H3 occurs in the second chapter only, and another book has markers at
\* the same chapter and verse numbers
UnitCorpora ==
    {<<Verse(1, 1, t1), Verse(1, 2, <<"g","i","v","e","{","H","1","}"," ","f","o","r","{","H","2","}">>), Verse(1, 3, t3),
       Verse(2, 1, t4), Verse(2, 2, <<"f","a","r","{","H","3","}"," ","g","i","v","e","{","H","1","}">>),
       [book_name |-> "Exo", chapter |-> 1, verse |-> 2, text |-> <<"{","H","1","}","{","H","1","}","{","H","1","}">>]>> :
        t1 \in UnitTexts, t3 \in UnitTexts, t4 \in UnitTexts}

\* units inside a chapter and across the two chapters
UnitRanges == {Unit(1, 2, 1, 2), Unit(1, 1, 1, 3), Unit(1, 2, 2, 1), Unit(1, 3, 2, 1),
               Unit(2, 1, 2, 2), Unit(2, 2, 2, 2)}

RECURSIVE UnitLists(_)
UnitLists(n) ==
    IF n = 0 THEN {<<>>}
    ELSE LET shorter == UnitLists(n - 1)
         IN  shorter \cup {Append(l, u) : l \in shorter, u \in UnitRanges}

InitUnits ==
    \E kjv \in UnitCorpora, units \in UnitLists(MaxUnits), ch \in CallChapters :
        FirstCallOf(kjv, NoOverrides, units, ch) /\ SoundIdle

SpecUnits == InitUnits /\ [][Next]_vars

\* C25: after the set-up of a call, the ids that have a classification are
\* the ids of the rendered chapter, and the unit peak of each is the largest
\* number of its markers in the verses of the book from (start chapter,
\* start verse) to (end chapter, end verse) of one active unit, both ends
\* included, and 0 when no unit is active.
C25_UnitPeakIsMaxOverActiveUnits ==
    (pc = "loop" /\ vi = 1 /\ si = 1) =>
        /\ DOMAIN uncommon_lookup = ChapterIds
        /\ \A sn \in ChapterIds : uncommon_lookup[sn].unit_peak = UnitPeak(sn)

\* two units are active, the second holds more markers of H1 than the first,
\* a verse of the book next to a unit holds a marker of H1 that the unit
\* does not count, and H3 occurs in the book but not in the chapter
C25_Witness ==
    /\ pc = "loop" /\ vi = 1 /\ si = 1
    /\ Len(active_units) = 2
    /\ UnitCount(H1, 1) < UnitCount(H1, 2)
    /\ UnitCount(H1, 2) < MarkerCount(kjv_path[1].text, H1) + UnitCount(H1, 2)
    /\ ~InUnit(1, 2)
    /\ active_units[2].range_start.chapter = 1 /\ active_units[2].range_start.verse = 2
    /\ H3 \notin ChapterIds /\ GlobalCount(H3) > 0
    /\ uncommon_lookup[H1].unit_peak = UnitCount(H1, 2)

----------------------------------------------------------------------------
(* C26: what a rendered line says once its elements are taken away.        *)

\* the length of the tag of an emitted element at position i of a line: an
\* opening <span ...> or <button ...> up to its '>', or a closing tag; 0
\* when no such tag starts there
ElementTagLenAt(s, i) ==
    IF StartsWithAt(s, i, <<"<","/","s","p","a","n",">">>) THEN 7
    ELSE IF StartsWithAt(s, i, <<"<","/","b","u","t","t","o","n",">">>) THEN 9
    ELSE IF StartsWithAt(s, i, <<"<","s","p","a","n"," ">>) \/ StartsWithAt(s, i, <<"<","b","u","t","t","o","n"," ">>)
         THEN LET close == Find(s, <<">">>, i) IN IF close = 0 THEN 0 ELSE close - i + 1
    ELSE 0

\* the line without the tags of its elements
RECURSIVE StripElementTags(_, _)
StripElementTags(s, i) ==
    IF i > Len(s) THEN <<>>
    ELSE LET n == ElementTagLenAt(s, i)
         IN  IF n > 0 THEN StripElementTags(s, i + n)
             ELSE <<s[i]>> \o StripElementTags(s, i + 1)

\* html.unescape on the references that html.escape writes
EscapedChars == {"&", "<", ">", "\"", "'"}
RECURSIVE Unescape(_, _)
Unescape(s, i) ==
    IF i > Len(s) THEN <<>>
    ELSE LET hits == {c \in EscapedChars : StartsWithAt(s, i, EscapeChar(c))}
         IN  IF s[i] = "&" /\ hits # {}
             THEN LET c == CHOOSE x \in hits : TRUE
                  IN  <<c>> \o Unescape(s, i + Len(EscapeChar(c)))
             ELSE <<s[i]>> \o Unescape(s, i + 1)

\* the raw text with every marker deleted, in each of the three forms that
\* lines 398-400 know: {H1}, {(H1)} and {H1)}
RECURSIVE DeleteMarkers(_, _)
DeleteMarkers(text, i) ==
    IF i > Len(text) THEN <<>>
    ELSE LET n == Max({MarkerLenAt(text, i), ParenMarkerLenAt(text, i),
                       HalfParenMarkerLenAt(text, i)})
         IN  IF n > 0 THEN DeleteMarkers(text, i + n)
             ELSE <<text[i]>> \o DeleteMarkers(text, i + 1)

\* the k-th line of the result says what the k-th verse of the chapter says
WordsKept(k) ==
    LET raw == chapter_data_of(kjv_path, book, chapter)[k]
    IN  Unescape(StripElementTags(result[k], 1), 1)
            = raw.verse \o <<" ">> \o DeleteMarkers(raw.text, 1)

----------------------------------------------------------------------------
(* C27: the position lists of local_roots and local_initials.              *)

\* the root (which = "roots") or the initial (which = "initials") that the
\* lexicon gives for the normalized id of a token; NoneOpt for a token
\* without an id, without a lexicon entry, or whose entry lacks the value
TokenKey(token, which) ==
    LET ref == IF token.t = "dict"
               THEN OrElse(OrElse(DictGet(token.d, "strongs"), DictGet(token.d, "strong")),
                           DictGet(token.d, "s"))
               ELSE IF token.t = "str" THEN token ELSE PyNone
        id == normalize_strongs_number(ref)
        entry == IF id = NoneOpt THEN <<>> ELSE Get(lexicon_roots, TheValue(id), <<>>)
        value == IF which = "roots" THEN DictGet(entry, "root")
                 ELSE OrElse(DictGet(entry, "first_root_letter"), DictGet(entry, "first_root"))
    IN  IF Truthy(value) THEN Some(PyStr(value)) ELSE NoneOpt

\* the tokens of an indexed verse
TokensOf(t) == TheValue(bible_index)[t[1]][t[2]][t[3]]

\* the list is strictly ascending, has two elements or more, and each element
\* is the 0-based index of a token of the verse that has the key
GoodPositions(positions, tokens, which, key) ==
    /\ Len(positions) >= 2
    /\ \A i \in 1..Len(positions), j \in 1..Len(positions) : i < j => positions[i] < positions[j]
    /\ \A i \in 1..Len(positions) :
          /\ positions[i] \in 0..(Len(tokens) - 1)
          /\ TokenKey(tokens[positions[i] + 1], which) = Some(key)

\* C27: in the output of a run, every position list under local_roots
\* (local_initials) of a verse is strictly ascending, has two elements or
\* more, and holds indices into the verse's token list of tokens whose
\* normalized id has that root (initial) in the lexicon; the index of a token
\* without id or lexicon entry is in no list.
C27_PositionListsIndexTheTokens ==
    sound_pc = "done" =>
        \A t \in IndexedVerses : \A p \in VerseOutputs :
            p[1] = IdOf(t) =>
                /\ \A k \in 1..Len(p[2].local_roots) :
                      GoodPositions(p[2].local_roots[k][2], TokensOf(t), "roots",
                                    p[2].local_roots[k][1])
                /\ \A k \in 1..Len(p[2].local_initials) :
                      GoodPositions(p[2].local_initials[k][2], TokensOf(t), "initials",
                                    p[2].local_initials[k][1])

\* a verse whose second token has no lexicon entry has a local initial at
\* its first and third token
C27_Witness ==
    /\ sound_pc = "done"
    /\ \E t \in IndexedVerses : \E p \in VerseOutputs :
          /\ p[1] = IdOf(t)
          /\ Len(TokensOf(t)) = 3
          /\ TokenKey(TokensOf(t)[2], "initials") = NoneOpt
          /\ TokenKey(TokensOf(t)[2], "roots") = NoneOpt
          /\ \E k \in 1..Len(p[2].local_initials) : p[2].local_initials[k][2] = <<0, 2>>
============================================================================
